---- MODULE Spec2Model ----
(***************************************************************************)
(* titlebot (src/titlebot.go, lines 1-492): the dispatcher of the URL      *)
(* resolution engine.  An inbound PRIVMSG is scanned for URLs, one         *)
(* goroutine per message runs titleAll, which calls title() once for each  *)
(* of the first maxUrlsPerMessage URLs.  title() takes a token of the      *)
(* shared semaphore without blocking, resolves the URL (generic page or    *)
(* Bluesky post), sends at most one NOTICE, and gives the token back in a  *)
(* deferred call.                                                          *)
(***************************************************************************)
EXTENDS Integers, Naturals, Sequences, FiniteSets, TLC

(***************************************************************************)
(* Bounds of the model.                                                    *)
(***************************************************************************)
\* the capacities of Bot.semaphore that are tried: 1..MaxCapacity
\* (concurrencyLimit is 128 in the program, titlebot.go:39)
MaxCapacity == 2
\* the largest number of URLs the scanner finds in one message
MaxFound == 5

\* titlebot.go:37
maxUrlsPerMessage == 4

\* the messages whose handling overlaps
Msgs == {1, 2}

VARIABLES
    capacity,   \* cap(Bot.semaphore), fixed by newBot
    semaphore,  \* number of elements buffered in the channel Bot.semaphore
    crashed,    \* TRUE once a panic has left a goroutine: the process is dead
    phase,      \* per message: position of the PRIVMSG callback
    found,      \* per message: len(findURL(message))
    pc,         \* per message: position of the goroutine running titleAll
    idx,        \* per message: number of title() calls that have returned
    pipe,       \* per message: the title() call started last (history included)
    call        \* one function call followed on its own (see the end of the module)

vars == <<capacity, semaphore, crashed, phase, found, pc, idx, pipe, call>>

\* no function call is followed on its own
NoCall == [op |-> "none"]

\* the positions at which a pipeline waits for an HTTP response
Waiting == {"generic", "resolve", "record"}

\* a title() call that has not started
\*   admitted  tryAcquireSemaphore returned true
\*   reqs      HTTP requests issued so far
\*   notices   calls of sendReplyNotice so far
\*   released  calls of releaseSemaphore so far
\*   outcome   where the resolver returned ("none" while it runs)
\*   failed    the environment made this resolution fail
NoPipe ==
    [admitted |-> FALSE, reqs |-> 0, notices |-> 0, released |-> 0,
     outcome |-> "none", failed |-> FALSE]

(***************************************************************************)
(* The semaphore.                                                          *)
(***************************************************************************)
\* mutant: a blocking send, as Semaphore.Acquire; returns only when there is room
tryAcquireSemaphore_blocking(s) ==
    [returns |-> s < capacity, acquired |-> TRUE, sem |-> s + 1]

\* mutant: the default case takes a token too
tryAcquireSemaphore_unbounded(s) ==
    [returns |-> TRUE, acquired |-> TRUE, sem |-> s + 1]

\* select { case b.semaphore <- empty{}: return true; default: return false }
tryAcquireSemaphore(s) ==
    IF s < capacity
    THEN [returns |-> TRUE, acquired |-> TRUE, sem |-> s + 1]
    ELSE [returns |-> TRUE, acquired |-> FALSE, sem |-> s]

\* <-b.semaphore: a receive, which waits while the channel is empty
releaseSemaphore(s) ==
    [returns |-> s > 0, sem |-> s - 1]

(***************************************************************************)
(* titleAll.                                                               *)
(***************************************************************************)
\* mutant: no truncation
Truncate_none(n) == n

\* if len(urls) > maxUrlsPerMessage { urls = urls[:maxUrlsPerMessage] }
Truncate(n) == IF n > maxUrlsPerMessage THEN maxUrlsPerMessage ELSE n

\* title() has returned to the loop of titleAll: next URL, or the goroutine ends
Advance(m) ==
    /\ idx' = [idx EXCEPT ![m] = @ + 1]
    /\ pc' = [pc EXCEPT ![m] =
                IF idx[m] + 1 < Truncate(found[m]) THEN "loop" ELSE "done"]

(***************************************************************************)
(* The PRIVMSG callback.  It runs to its end in one step: nothing in it     *)
(* waits.                                                                  *)
(***************************************************************************)
\* mutant: irc.titleAll called without `go`: the callback returns after it
Launch_sync(m, n) ==
    /\ pc' = [pc EXCEPT ![m] = "done"]
    /\ idx' = [idx EXCEPT ![m] = Truncate(n)]
    /\ UNCHANGED <<semaphore, pipe>>

\* go irc.titleAll(e.Params[0], msgid, urls)
Launch(m, n) ==
    /\ pc' = [pc EXCEPT ![m] = "loop"]
    /\ UNCHANGED <<semaphore, idx, pipe>>

Privmsg(m) ==
    /\ ~crashed
    /\ phase[m] = "unseen"
    /\ \E isChannel \in BOOLEAN, fromOwner \in BOOLEAN, n \in 0..MaxFound :
          IF ~isChannel /\ ~fromOwner
          THEN /\ phase' = [phase EXCEPT ![m] = "ignored"]
               /\ UNCHANGED <<semaphore, found, pc, idx, pipe>>
          ELSE /\ phase' = [phase EXCEPT ![m] = "handled"]
               /\ found' = [found EXCEPT ![m] = n]
               /\ IF n > 0
                  THEN Launch(m, n)
                  ELSE UNCHANGED <<semaphore, pc, idx, pipe>>
               \* handleOwnerCommand and the "don't @ me, mortal" reply write
               \* to the connection only
    /\ UNCHANGED <<capacity, crashed, call>>

(***************************************************************************)
(* What the environment hands to a pipeline.                               *)
(***************************************************************************)
\* the URL as title() and titleGeneric see it before any request
UrlFacts ==
    [bluesky : BOOLEAN, badurl : BOOLEAN, panics : BOOLEAN]

\* the answer to the GET of titleGeneric
GenericResp ==
    [err : BOOLEAN, status : {200, 404}, readerr : BOOLEAN,
     match : BOOLEAN, empty : BOOLEAN, panics : BOOLEAN]

\* the answer to com.atproto.identity.resolveHandle
ResolveResp ==
    [err : BOOLEAN, status : {200, 404}, badjson : BOOLEAN,
     did : {"", "did"}, panics : BOOLEAN]

\* the answer to com.atproto.repo.getRecord
RecordResp ==
    [err : BOOLEAN, status : {200, 404}, badjson : BOOLEAN,
     createdAt : {"", "bad", "good"}, panics : BOOLEAN]

\* the failure kinds of the error taxonomy, as facts of the environment
GenericFailed(r) ==
    r.err \/ r.status # 200 \/ r.readerr \/ r.panics \/ ~r.match \/ r.empty

ResolveFailed(r) ==
    r.err \/ r.status # 200 \/ r.badjson \/ r.panics \/ r.did = ""

RecordFailed(r) ==
    r.err \/ r.status # 200 \/ r.badjson \/ r.panics \/ r.createdAt # "good"

(***************************************************************************)
(* sendReplyNotice, as counted for the pipeline that calls it.             *)
(***************************************************************************)
\* mutant: the else is missing, Notice and SendWithTags both run
sendReplyNotice_both(p) == [p EXCEPT !.notices = @ + 2]

\* if msgid == "" { irc.Notice(...) } else { irc.SendWithTags(...) }
sendReplyNotice(p) == [p EXCEPT !.notices = @ + 1]

(***************************************************************************)
(* titleGeneric.                                                           *)
(***************************************************************************)
\* mutant: the len(title) != 0 test is missing
titleGenericBody_sendsEmpty(r) ==
    IF r.panics THEN [path |-> "panic", sends |-> FALSE]
    ELSE IF r.err THEN [path |-> "neterr", sends |-> FALSE]
    ELSE IF r.status # 200 THEN [path |-> "non200", sends |-> FALSE]
    ELSE IF r.readerr THEN [path |-> "readerr", sends |-> FALSE]
    ELSE IF r.match THEN [path |-> "sent", sends |-> TRUE]
    ELSE [path |-> "notitle", sends |-> FALSE]

\* from httpClient.Do to the end of titleGeneric
titleGenericBody(r) ==
    IF r.panics THEN [path |-> "panic", sends |-> FALSE]
    ELSE IF r.err THEN [path |-> "neterr", sends |-> FALSE]
    ELSE IF r.status # 200 THEN [path |-> "non200", sends |-> FALSE]
    ELSE IF r.readerr THEN [path |-> "readerr", sends |-> FALSE]
    ELSE IF r.match
         THEN IF ~r.empty
              THEN [path |-> "sent", sends |-> TRUE]
              ELSE [path |-> "notitle", sends |-> FALSE]
         ELSE [path |-> "notitle", sends |-> FALSE]

(***************************************************************************)
(* titleBluesky.                                                           *)
(***************************************************************************)
\* mutant: the StatusCode test is missing
resolveBlueskyHandle_anyStatus(r) ==
    IF r.err THEN ""
    ELSE IF r.badjson THEN ""
    ELSE r.did

\* mutant: the result of Decode is not looked at
resolveBlueskyHandle_anyBody(r) ==
    IF r.err THEN ""
    ELSE IF r.status # 200 THEN ""
    ELSE r.did

\* the did returned by resolveBlueskyHandle; "" on every failure
resolveBlueskyHandle(r) ==
    IF r.err THEN ""
    ELSE IF r.status # 200 THEN ""
    ELSE IF r.badjson THEN ""
    ELSE r.did

\* lines written to irc.Log by resolveBlueskyHandle
resolveBlueskyHandleLogs(r) ==
    IF r.err THEN 1
    ELSE IF r.status # 200 THEN 1
    ELSE IF r.badjson THEN 1
    ELSE 0

\* mutant: the StatusCode test is missing, the body is decoded whatever it is
getBlueskyPost_anyStatus(r) ==
    IF r.err THEN [createdAt |-> "", err |-> TRUE]
    ELSE IF r.badjson THEN [createdAt |-> "", err |-> FALSE]
    ELSE [createdAt |-> r.createdAt, err |-> FALSE]

\* (record, err) returned by getBlueskyPost; err is the error of httpClient.Get
getBlueskyPost(r) ==
    IF r.err THEN [createdAt |-> "", err |-> TRUE]
    ELSE IF r.status # 200 THEN [createdAt |-> "", err |-> FALSE]
    ELSE IF r.badjson THEN [createdAt |-> "", err |-> FALSE]
    ELSE [createdAt |-> r.createdAt, err |-> FALSE]

\* from the return of getBlueskyPost to the end of titleBluesky
titleBlueskyBody(r) ==
    LET got == getBlueskyPost(r) IN
    IF r.panics THEN [path |-> "panic", sends |-> FALSE]
    ELSE IF got.err THEN [path |-> "neterr", sends |-> FALSE]
    ELSE IF got.createdAt # "good" THEN [path |-> "badtime", sends |-> FALSE]
    ELSE [path |-> "sent", sends |-> TRUE]

\* lines written to irc.Log by getBlueskyPost: none for a transport error,
\* one for a status, two (checkErr, then Printf) for undecodable JSON
getBlueskyPostLogs(r) ==
    IF r.err THEN 0
    ELSE IF r.status # 200 THEN 1
    ELSE IF r.badjson THEN 2
    ELSE 0

\* lines written to irc.Log from the call of getBlueskyPost to the end of
\* titleBluesky: those of getBlueskyPost, and checkErr on time.Parse
titleBlueskyLogs(r) ==
    LET got == getBlueskyPost(r) IN
    getBlueskyPostLogs(r)
        + (IF ~got.err /\ got.createdAt # "good" THEN 1 ELSE 0)

(***************************************************************************)
(* title.                                                                  *)
(***************************************************************************)
\* mutant: "Titled ... in ..." is logged whether or not irc.Debug is set
titleDeferredLogs_always(debug, panicking) ==
    1 + (IF panicking THEN 1 ELSE 0)

\* lines written to irc.Log by the deferred functions of title()
titleDeferredLogs(debug, panicking) ==
    (IF debug THEN 1 ELSE 0) + (IF panicking THEN 1 ELSE 0)

\* mutant: the rejected URL stays at the head of the loop and is tried again
Rejected_retry(m) ==
    /\ pipe' = [pipe EXCEPT ![m] =
                  [NoPipe EXCEPT !.outcome = "rejected", !.failed = TRUE]]
    /\ UNCHANGED <<semaphore, idx, pc>>

\* if !irc.tryAcquireSemaphore() { irc.Log.Printf(...); return }
Rejected(m) ==
    /\ pipe' = [pipe EXCEPT ![m] =
                  [NoPipe EXCEPT !.outcome = "rejected", !.failed = TRUE]]
    /\ Advance(m)
    /\ UNCHANGED semaphore

\* mutant: the resolver runs in a goroutine of its own and title() is left at
\* once, so titleAll goes on while the token is still out
Return_withoutDeferred(m, p, path, failed) ==
    /\ pipe' = [pipe EXCEPT ![m] = [p EXCEPT !.outcome = path, !.failed = failed]]
    /\ pc' = [pc EXCEPT ![m] = "loop"]

\* the resolver has returned or panicked: the deferred calls of title() are next
Return(m, p, path, failed) ==
    /\ pipe' = [pipe EXCEPT ![m] = [p EXCEPT !.outcome = path, !.failed = failed]]
    /\ pc' = [pc EXCEPT ![m] = "deferred"]

\* title() from its entry to the first HTTP request of the resolver it picks
Title(m) ==
    /\ ~crashed
    /\ pc[m] = "loop"
    /\ LET got == tryAcquireSemaphore(semaphore) IN
       /\ got.returns
       /\ IF ~got.acquired
          THEN Rejected(m)
          ELSE /\ semaphore' = got.sem
               /\ UNCHANGED idx
               /\ \E u \in UrlFacts :
                     LET p == [NoPipe EXCEPT !.admitted = TRUE] IN
                     IF u.panics
                     THEN Return(m, p, "panic", TRUE)
                     ELSE IF u.bluesky
                     \* extractBlueskyData found a handle: titleBluesky
                     THEN /\ pipe' = [pipe EXCEPT ![m] = [p EXCEPT !.reqs = 1]]
                          /\ pc' = [pc EXCEPT ![m] = "resolve"]
                     \* titleGeneric: analyzeURL, http.NewRequest
                     ELSE IF u.badurl
                     THEN Return(m, p, "badurl", TRUE)
                     ELSE /\ pipe' = [pipe EXCEPT ![m] = [p EXCEPT !.reqs = 1]]
                          /\ pc' = [pc EXCEPT ![m] = "generic"]
    /\ UNCHANGED <<capacity, crashed, phase, found, call>>

\* httpClient.Do returns in titleGeneric
GenericResponse(m) ==
    /\ ~crashed
    /\ pc[m] = "generic"
    /\ \E r \in GenericResp :
          LET b == titleGenericBody(r)
              p == IF b.sends THEN sendReplyNotice(pipe[m]) ELSE pipe[m]
          IN  Return(m, p, b.path, GenericFailed(r))
    /\ UNCHANGED <<capacity, semaphore, crashed, phase, found, idx, call>>

\* httpClient.Get returns in resolveBlueskyHandle; on a did, getBlueskyPost
\* issues the second request
ResolveResponse(m) ==
    /\ ~crashed
    /\ pc[m] = "resolve"
    /\ \E r \in ResolveResp :
          IF r.panics
          THEN Return(m, pipe[m], "panic", TRUE)
          ELSE IF resolveBlueskyHandle(r) = ""
          THEN Return(m, pipe[m], "nodid", ResolveFailed(r))
          ELSE /\ pipe' = [pipe EXCEPT ![m].reqs = @ + 1,
                                       ![m].failed = ResolveFailed(r)]
               /\ pc' = [pc EXCEPT ![m] = "record"]
    /\ UNCHANGED <<capacity, semaphore, crashed, phase, found, idx, call>>

\* httpClient.Get returns in getBlueskyPost
RecordResponse(m) ==
    /\ ~crashed
    /\ pc[m] = "record"
    /\ \E r \in RecordResp :
          LET b == titleBlueskyBody(r)
              p == IF b.sends THEN sendReplyNotice(pipe[m]) ELSE pipe[m]
          IN  Return(m, p, b.path, RecordFailed(r))
    /\ UNCHANGED <<capacity, semaphore, crashed, phase, found, idx, call>>

\* mutant: no deferred recover(): a panic goes on unwinding
recoverPanic_none(panicking) == panicking

\* defer func() { if r := recover(); r != nil { ... } }(): is the goroutine
\* still panicking after it
recoverPanic(panicking) == FALSE

\* mutant: releaseSemaphore is a plain last statement, skipped by a panic
releaseRuns_unlessPanic(panicking) == ~panicking

\* defer irc.releaseSemaphore(): does it run
releaseRuns(panicking) == TRUE

\* the deferred calls of title(), last registered first, and its return
Deferred(m) ==
    /\ ~crashed
    /\ pc[m] = "deferred"
    /\ LET panicking == pipe[m].outcome = "panic"
           rel == releaseSemaphore(semaphore)
       IN  /\ IF releaseRuns(panicking)
              THEN /\ rel.returns
                   /\ semaphore' = rel.sem
                   /\ pipe' = [pipe EXCEPT ![m].released = @ + 1]
              ELSE UNCHANGED <<semaphore, pipe>>
           /\ IF recoverPanic(panicking)
              THEN /\ crashed' = TRUE
                   /\ UNCHANGED <<idx, pc>>
              ELSE /\ Advance(m)
                   /\ UNCHANGED crashed
    /\ UNCHANGED <<capacity, phase, found, call>>

(***************************************************************************)
(* The bot.                                                                *)
(***************************************************************************)
\* newBot: make(chan empty, concurrencyLimit), no message handled yet
Init ==
    /\ capacity \in 1..MaxCapacity
    /\ semaphore = 0
    /\ crashed = FALSE
    /\ phase = [m \in Msgs |-> "unseen"]
    /\ found = [m \in Msgs |-> 0]
    /\ pc = [m \in Msgs |-> "none"]
    /\ idx = [m \in Msgs |-> 0]
    /\ pipe = [m \in Msgs |-> NoPipe]
    /\ call = NoCall

\* one step of the goroutine of message m
Step(m) ==
    \/ Title(m)
    \/ GenericResponse(m)
    \/ ResolveResponse(m)
    \/ RecordResponse(m)
    \/ Deferred(m)

Next ==
    \E m \in Msgs : Privmsg(m) \/ Step(m)

Spec == Init /\ [][Next]_vars

\* every HTTP call returns (httpClient.Timeout is 15 s) and the Go scheduler
\* runs every goroutine that can run; messages need not arrive
FairSpec == Spec /\ \A m \in Msgs : WF_vars(Step(m))

\* the shape of the state: cap and len of Bot.semaphore, the callback and
\* goroutine positions, the loop index of titleAll, the running title() call
TypeOK ==
    /\ call = NoCall
    /\ capacity \in 1..MaxCapacity
    /\ semaphore \in Nat
    /\ crashed \in BOOLEAN
    /\ phase \in [Msgs -> {"unseen", "ignored", "handled"}]
    /\ found \in [Msgs -> 0..MaxFound]
    /\ pc \in [Msgs -> {"none", "loop", "deferred", "done"} \cup Waiting]
    /\ idx \in [Msgs -> 0..MaxFound]
    /\ \A m \in Msgs :
          /\ pipe[m].admitted \in BOOLEAN
          /\ pipe[m].failed \in BOOLEAN
          /\ pipe[m].reqs \in 0..2
          /\ pipe[m].notices \in Nat
          /\ pipe[m].released \in Nat
          /\ pipe[m].outcome \in
                {"none", "rejected", "panic", "badurl", "neterr", "non200",
                 "readerr", "notitle", "nodid", "badtime", "sent"}

(***************************************************************************)
(* Function calls followed on their own.  The dispatcher stands still      *)
(* (as newBot left it, with one token) and `call` holds the arguments,     *)
(* the position and the results of the one call.                           *)
(***************************************************************************)
disp == <<capacity, semaphore, crashed, phase, found, pc, idx, pipe>>

DispatcherIdle ==
    /\ capacity = 1
    /\ semaphore = 0
    /\ crashed = FALSE
    /\ phase = [m \in Msgs |-> "unseen"]
    /\ found = [m \in Msgs |-> 0]
    /\ pc = [m \in Msgs |-> "none"]
    /\ idx = [m \in Msgs |-> 0]
    /\ pipe = [m \in Msgs |-> NoPipe]

\* no response received yet
NoResp == [none |-> TRUE]

(***************************************************************************)
(* One admitted title() call on a Bluesky post URL, from the request of    *)
(* resolveBlueskyHandle to the return of title(), with its log lines.      *)
(***************************************************************************)
InitBluesky ==
    /\ DispatcherIdle
    /\ \E debug \in BOOLEAN :
          call = [op |-> "titleBluesky", debug |-> debug, pos |-> "resolve",
                  reqs |-> 1, notices |-> 0, logs |-> 0, panicking |-> FALSE,
                  resolve |-> NoResp, record |-> NoResp]

\* httpClient.Get returns in resolveBlueskyHandle
BskyResolve ==
    /\ call.op = "titleBluesky"
    /\ call.pos = "resolve"
    /\ \E r \in ResolveResp :
          call' =
            IF r.panics
            THEN [call EXCEPT !.resolve = r, !.panicking = TRUE,
                              !.pos = "deferred"]
            ELSE IF resolveBlueskyHandle(r) = ""
            THEN [call EXCEPT !.resolve = r, !.pos = "deferred",
                              !.logs = @ + resolveBlueskyHandleLogs(r)]
            ELSE [call EXCEPT !.resolve = r, !.pos = "record",
                              !.logs = @ + resolveBlueskyHandleLogs(r),
                              !.reqs = @ + 1]
    /\ UNCHANGED disp

\* httpClient.Get returns in getBlueskyPost
BskyRecord ==
    /\ call.op = "titleBluesky"
    /\ call.pos = "record"
    /\ \E r \in RecordResp :
          LET b == titleBlueskyBody(r)
              c == IF b.sends THEN sendReplyNotice(call) ELSE call
          IN  call' =
                IF b.path = "panic"
                THEN [c EXCEPT !.record = r, !.panicking = TRUE,
                               !.pos = "deferred"]
                ELSE [c EXCEPT !.record = r, !.pos = "deferred",
                               !.logs = @ + titleBlueskyLogs(r)]
    /\ UNCHANGED disp

\* the deferred functions of title() and its return
BskyDeferred ==
    /\ call.op = "titleBluesky"
    /\ call.pos = "deferred"
    /\ call' = [call EXCEPT !.pos = "done",
                  !.logs = @ + titleDeferredLogs(call.debug, call.panicking)]
    /\ UNCHANGED disp

NextBluesky == BskyResolve \/ BskyRecord \/ BskyDeferred

SpecBluesky == InitBluesky /\ [][NextBluesky]_vars

(***************************************************************************)
(* displayTwitterTime and humanReadableDuration.  A time.Duration is an    *)
(* int64 count of nanoseconds; it is kept here as whole seconds and the    *)
(* nanoseconds below one second, so that a year of nanoseconds needs no    *)
(* number beyond 2^31.  Comparison, quotient and remainder are those of    *)
(* the nanosecond count.                                                   *)
(***************************************************************************)
\* the largest number of whole days of an elapsed time that is tried
MaxDays == 8

Dur(sec, nsec) == [s |-> sec, ns |-> nsec]

\* a > b
DurGt(a, b) == a.s > b.s \/ (a.s = b.s /\ a.ns > b.ns)

\* a / u for a unit u that is whole seconds or below one second
DurDiv(a, u) ==
    IF u.s > 0 THEN a.s \div u.s
    ELSE (a.s * 1000000000 + a.ns) \div u.ns

\* a % u
DurMod(a, u) ==
    IF u.s > 0 THEN Dur(a.s % u.s, a.ns)
    ELSE Dur(0, (a.s * 1000000000 + a.ns) % u.ns)

\* var humanDurations
humanDurations ==
    << [dur |-> Dur(24 * 365 * 3600, 0), name |-> "y"],
       [dur |-> Dur(24 * 3600, 0), name |-> "d"],
       [dur |-> Dur(3600, 0), name |-> "h"],
       [dur |-> Dur(60, 0), name |-> "m"],
       [dur |-> Dur(1, 0), name |-> "s"],
       [dur |-> Dur(0, 1000000), name |-> "ms"] >>

\* mutant: the loop has no break, every unit below the first one is tried
RECURSIVE humanReadableLoop_noBreak(_, _, _, _)
humanReadableLoop_noBreak(i, first, d, out) ==
    IF i > Len(humanDurations) THEN out
    ELSE LET up == humanDurations[i] IN
         IF DurGt(d, up.dur)
         THEN humanReadableLoop_noBreak(
                  i + 1,
                  IF first = 0 THEN i ELSE first,
                  DurMod(d, up.dur),
                  Append(out, [count |-> DurDiv(d, up.dur), name |-> up.name]))
         ELSE humanReadableLoop_noBreak(i + 1, first, d, out)

\* the loop of humanReadableDuration from index i on (first is the
\* index the code calls found, 0 while it is -1);
\* out is what fmt.Fprintf("%d%s") has written, one entry per call
RECURSIVE humanReadableLoop(_, _, _, _)
humanReadableLoop(i, first, d, out) ==
    IF i > Len(humanDurations) THEN out
    ELSE IF first # 0 /\ i > first + 1 THEN out
    ELSE LET up == humanDurations[i] IN
         IF DurGt(d, up.dur)
         THEN humanReadableLoop(
                  i + 1,
                  IF first = 0 THEN i ELSE first,
                  DurMod(d, up.dur),
                  Append(out, [count |-> DurDiv(d, up.dur), name |-> up.name]))
         ELSE humanReadableLoop(i + 1, first, d, out)

humanReadableDuration(d) == humanReadableLoop(1, 0, d, << >>)

\* mutant: the date is used from exactly 7 days on
displayTwitterTime_fromSevenDays(elapsed) ==
    IF ~DurGt(Dur(7 * 24 * 3600, 0), elapsed)
    THEN [kind |-> "date", units |-> << >>]
    ELSE [kind |-> "ago", units |-> humanReadableDuration(elapsed)]

\* elapsed is time.Since(then); the date is then.Format("2006-01-02")
displayTwitterTime(elapsed) ==
    IF DurGt(elapsed, Dur(7 * 24 * 3600, 0))
    THEN [kind |-> "date", units |-> << >>]
    ELSE [kind |-> "ago", units |-> humanReadableDuration(elapsed)]

\* the elapsed times that are tried
Elapsed ==
    { Dur(((dd * 24 + hh) * 60 + mm) * 60 + ss, nn) :
        dd \in 0..MaxDays, hh \in {0, 1, 3, 23}, mm \in {0, 5, 30},
        ss \in {0, 1}, nn \in {0, 1, 1000000, 999999999} }

InitTime ==
    /\ DispatcherIdle
    /\ \E d \in Elapsed :
          call = [op |-> "displayTwitterTime", elapsed |-> d, pos |-> "called",
                  out |-> [kind |-> "none", units |-> << >>]]

DisplayTime ==
    /\ call.op = "displayTwitterTime"
    /\ call.pos = "called"
    /\ call' = [call EXCEPT !.pos = "returned",
                             !.out = displayTwitterTime(call.elapsed)]
    /\ UNCHANGED disp

NextTime == DisplayTime

SpecTime == InitTime /\ [][NextTime]_vars

\* the largest number of whole years of a duration that is tried
MaxYears == 2

\* the durations humanReadableDuration is called with on its own: the
\* elapsed times, and durations of a year and more
Durations ==
    Elapsed \cup
    { Dur((((yy * 365 + dd) * 24 + hh) * 60 + mm) * 60, nn) :
        yy \in 1..MaxYears, dd \in {0, 1, 364}, hh \in {0, 1}, mm \in {0, 5},
        nn \in {0, 1} }

InitDuration ==
    /\ DispatcherIdle
    /\ \E d \in Durations :
          call = [op |-> "humanReadableDuration", d |-> d, pos |-> "called",
                  units |-> << >>]

HumanReadable ==
    /\ call.op = "humanReadableDuration"
    /\ call.pos = "called"
    /\ call' = [call EXCEPT !.pos = "returned",
                             !.units = humanReadableDuration(call.d)]
    /\ UNCHANGED disp

NextDuration == HumanReadable

SpecDuration == InitDuration /\ [][NextDuration]_vars

(***************************************************************************)
(* domainMatch.  A Go string is the sequence of its characters.            *)
(***************************************************************************)
\* the longest host and domain over Alphabet that is tried
MaxLen == 3

Alphabet == {"a", "b", "."}

Strings(n) == UNION { [1..k -> Alphabet] : k \in 0..n }

\* strings.HasSuffix
HasSuffix(str, suffix) ==
    /\ Len(suffix) <= Len(str)
    /\ SubSeq(str, Len(str) - Len(suffix) + 1, Len(str)) = suffix

\* strings.TrimSuffix
TrimSuffix(str, suffix) ==
    IF HasSuffix(str, suffix)
    THEN SubSeq(str, 1, Len(str) - Len(suffix))
    ELSE str

domainMatch_anySuffix(host, domain) ==
    host # TrimSuffix(host, domain)

domainMatch(host, domain) ==
    LET trimmed == TrimSuffix(host, domain) IN
    /\ host # trimmed
    /\ (trimmed = << >> \/ HasSuffix(trimmed, <<".">>))

\* the cases of TestDomainMatch
testCases ==
    { [host |-> <<"w", "w", "w", ".", "g", "o", "o", "g", "l", "e", ".", "c", "o", "m">>,
       domain |-> <<"b", "i", "n", "g", ".", "c", "o", "m">>,
       shouldMatch |-> FALSE],
      [host |-> <<"w", "w", "w", ".", "g", "o", "o", "g", "l", "e", ".", "c", "o", "m">>,
       domain |-> <<"g", "o", "o", "g", "l", "e", ".", "c", "o", "m">>,
       shouldMatch |-> TRUE],
      [host |-> <<"g", "o", "o", "g", "l", "e", ".", "c", "o", "m">>,
       domain |-> <<"g", "o", "o", "g", "l", "e", ".", "c", "o", "m">>,
       shouldMatch |-> TRUE],
      [host |-> <<"g", "o", "o", "g", "l", "e", ".", "c", "o", "m">>,
       domain |-> <<"w", "w", "w", ".", "g", "o", "o", "g", "l", "e", ".", "c", "o", "m">>,
       shouldMatch |-> FALSE],
      [host |-> <<"c", "l", "i", "e", "n", "t", "s", "3", ".", "g", "o", "o", "g", "l", "e", ".", "c", "o", "m">>,
       domain |-> <<"w", "w", "w", ".", "g", "o", "o", "g", "l", "e", ".", "c", "o", "m">>,
       shouldMatch |-> FALSE] }

InitDomain ==
    /\ DispatcherIdle
    /\ \E h \in Strings(MaxLen) \cup {t.host : t \in testCases},
          d \in Strings(MaxLen) \cup {t.domain : t \in testCases} :
          call = [op |-> "domainMatch", host |-> h, domain |-> d,
                  pos |-> "called", out |-> FALSE]

DomainMatch ==
    /\ call.op = "domainMatch"
    /\ call.pos = "called"
    /\ call' = [call EXCEPT !.pos = "returned",
                             !.out = domainMatch(call.host, call.domain)]
    /\ UNCHANGED disp

NextDomain == DomainMatch

SpecDomain == InitDomain /\ [][NextDomain]_vars

(***************************************************************************)
(* analyzeURL.  The URL is the sequence of its characters; url.Parse,      *)
(* net.SplitHostPort and strings.ToLower work on that sequence.            *)
(***************************************************************************)
\* the number of calls of analyzeURL that are followed one after another
MaxCalls == 2

trustedReadLimit == 1024 * 1024

genericTitleReadLimit == 1024 * 64

lowerLetters ==
    << "a", "b", "c", "d", "e", "f", "g", "h", "i", "j", "k", "l", "m",
       "n", "o", "p", "q", "r", "s", "t", "u", "v", "w", "x", "y", "z" >>

upperLetters ==
    << "A", "B", "C", "D", "E", "F", "G", "H", "I", "J", "K", "L", "M",
       "N", "O", "P", "Q", "R", "S", "T", "U", "V", "W", "X", "Y", "Z" >>

Digits == {"0", "1", "2", "3", "4", "5", "6", "7", "8", "9"}

\* the index of the first c in str, 0 if there is none
IndexOf(str, c) ==
    IF \E i \in 1..Len(str) : str[i] = c
    THEN CHOOSE i \in 1..Len(str) :
             str[i] = c /\ \A j \in 1..(i - 1) : str[j] # c
    ELSE 0

\* the index of the last c in str, 0 if there is none
LastIndexOf(str, c) ==
    IF \E i \in 1..Len(str) : str[i] = c
    THEN CHOOSE i \in 1..Len(str) :
             str[i] = c /\ \A j \in (i + 1)..Len(str) : str[j] # c
    ELSE 0

\* str up to the first c, all of it if there is none
Before(str, c) ==
    IF IndexOf(str, c) = 0 THEN str ELSE SubSeq(str, 1, IndexOf(str, c) - 1)

\* str after the first c
After(str, c) == SubSeq(str, IndexOf(str, c) + 1, Len(str))

\* the letter of to at the place c has in from, c itself if it has none
MapChar(c, from, to) ==
    IF \E i \in 1..Len(from) : from[i] = c
    THEN to[CHOOSE i \in 1..Len(from) : from[i] = c]
    ELSE c

\* strings.ToLower
ToLower(str) ==
    IF str = << >> THEN << >>
    ELSE [i \in 1..Len(str) |-> MapChar(str[i], upperLetters, lowerLetters)]

\* mutant: every port is accepted
urlParse_lenient(urlStr) ==
    [err |-> FALSE,
     Host |-> Before(Before(Before(After(After(After(urlStr, ":"), "/"), "/"),
                                   "#"), "?"), "/")]

\* url.Parse, for a URL of the form scheme://authority...: the fragment
\* and the query are cut off, the authority ends at the first "/", and a
\* port that is not a run of digits is refused
urlParse(urlStr) ==
    LET rest == After(After(After(urlStr, ":"), "/"), "/")
        authority == Before(Before(Before(rest, "#"), "?"), "/")
        colon == LastIndexOf(authority, ":")
        port == SubSeq(authority, colon + 1, Len(authority))
    IN  IF colon # 0 /\ \E i \in 1..Len(port) : port[i] \notin Digits
        THEN [err |-> TRUE, Host |-> << >>]
        ELSE [err |-> FALSE, Host |-> authority]

\* net.SplitHostPort, for a host without brackets
SplitHostPort(hostport) ==
    LET colon == LastIndexOf(hostport, ":")
        host == SubSeq(hostport, 1, colon - 1)
    IN  IF colon = 0 \/ IndexOf(host, ":") # 0
        THEN [err |-> TRUE, host |-> << >>]
        ELSE [err |-> FALSE, host |-> host]

\* var garbageJSDomains
garbageJSDomains ==
    << <<"a", "m", "a", "z", "o", "n", ".", "c", "o", "m">>,
       <<"a", "m", "a", "z", "o", "n", ".", "c", "a">>,
       <<"a", "m", "z", "n", ".", "t", "o">>,
       <<"i", "m", "d", "b", ".", "c", "o", "m">>,
       <<"g", "o", "o", "g", "l", "e", ".", "c", "o", "m">>,
       <<"g", "o", "o", ".", "g", "l">>,
       <<"g", "i", "t", "h", "u", "b", ".", "c", "o", "m">>,
       <<"y", "o", "u", "t", "u", "b", "e", ".", "c", "o", "m">>,
       <<"y", "o", "u", "t", "u", ".", "b", "e">> >>

isGarbageJSDomain(host) ==
    \E i \in 1..Len(garbageJSDomains) : domainMatch(host, garbageJSDomains[i])

analyzeURL_caseSensitive(urlStr) ==
    LET u == urlParse(urlStr)
        split == SplitHostPort(u.Host)
        host == IF split.err THEN u.Host ELSE split.host
    IN  IF u.err THEN [byteLimit |-> 0, err |-> TRUE]
        ELSE IF isGarbageJSDomain(host)
        THEN [byteLimit |-> trustedReadLimit, err |-> FALSE]
        ELSE [byteLimit |-> genericTitleReadLimit, err |-> FALSE]

\* the results byteLimit and err of analyzeURL (titleRe is always
\* genericTitleRe when err is nil)
analyzeURL(urlStr) ==
    LET u == urlParse(urlStr)
        split == SplitHostPort(u.Host)
        host == IF split.err THEN u.Host ELSE split.host
        hostLower == ToLower(host)
    IN  IF u.err THEN [byteLimit |-> 0, err |-> TRUE]
        ELSE IF isGarbageJSDomain(hostLower)
        THEN [byteLimit |-> trustedReadLimit, err |-> FALSE]
        ELSE [byteLimit |-> genericTitleReadLimit, err |-> FALSE]

\* the lower-case hosts that are tried: every listed domain, a subdomain
\* of it, a host that only ends with its letters, and unlisted hosts
Hosts ==
    {garbageJSDomains[i] : i \in 1..Len(garbageJSDomains)}
    \cup {<<"w", "w", "w", ".">> \o garbageJSDomains[i] :
             i \in 1..Len(garbageJSDomains)}
    \cup {<<"x">> \o garbageJSDomains[i] : i \in 1..Len(garbageJSDomains)}
    \cup { << >>,
           <<"e", "x", "a", "m", "p", "l", "e", ".", "o", "r", "g">>,
           <<"g", "o", "o", "g", "l", "e", ".", "c", "o", "m", ".", "e", "x", "a", "m", "p", "l", "e", ".", "o", "r", "g">>,
           <<"g", "o", "o", "g", "l", "e", ".", "c", "o", "m", ".">>,
           <<"c", "o", "m">> }

\* how the letters of the host are written in the URL
Casings == {"lower", "upper"}

Recase(host, casing) ==
    IF host = << >> \/ casing = "lower" THEN host
    ELSE [i \in 1..Len(host) |-> MapChar(host[i], lowerLetters, upperLetters)]

Schemes == {<<"h", "t", "t", "p">>, <<"H", "T", "T", "P", "S">>}

\* what follows the host: nothing, a port (the last one no number), a
\* path, a query
Ports == {<< >>, <<":">>, <<":", "8", "0">>, <<":", "x">>}

Tails == {<< >>, <<"/", "y", "o", "u", "t", "u", ".", "b", "e">>, <<"?", "u", "=", "g", "o", "o", ".", "g", "l">>}

\* a call of analyzeURL; parts records what the URL was put together from
AnalyzeCall(n, sch, h, casing, port, tail) ==
    [op |-> "analyzeURL", n |-> n, pos |-> "called",
     urlStr |-> sch \o <<":", "/", "/">> \o Recase(h, casing) \o port \o tail,
     parts |-> [host |-> h, casing |-> casing, port |-> port, tail |-> tail],
     out |-> [byteLimit |-> 0, err |-> FALSE]]

InitAnalyze ==
    /\ DispatcherIdle
    /\ \E sch \in Schemes, h \in Hosts, casing \in Casings,
          port \in Ports, tail \in Tails :
          call = AnalyzeCall(1, sch, h, casing, port, tail)

Analyze ==
    /\ call.op = "analyzeURL"
    /\ call.pos = "called"
    /\ call' = [call EXCEPT !.pos = "returned",
                             !.out = analyzeURL(call.urlStr)]
    /\ UNCHANGED disp

\* the next URL is analysed by the same Bot
AnalyzeNext ==
    /\ call.op = "analyzeURL"
    /\ call.pos = "returned"
    /\ call.n < MaxCalls
    /\ \E sch \in Schemes, h \in Hosts, casing \in Casings,
          port \in Ports, tail \in Tails :
          call' = AnalyzeCall(call.n + 1, sch, h, casing, port, tail)
    /\ UNCHANGED disp

NextAnalyze == Analyze \/ AnalyzeNext

SpecAnalyze == InitAnalyze /\ [][NextAnalyze]_vars

(***************************************************************************)
(* findURL.  urlRe is \b(?i)(https?://.*?)(\s|$): a match starts at a word *)
(* boundary with http:// or https:// in any letter case, its first group   *)
(* is the shortest run that a white-space character or the end of the text *)
(* follows, and the match takes that white-space character with it.        *)
(* FindAllStringSubmatch looks for the next match after the end of the     *)
(* one before.                                                             *)
(***************************************************************************)
\* the largest number of pieces a message is put together from
MaxPieces == 3

\* \s of the regexp: tab, newline, form feed, carriage return, space
IsSpace(c) == c \in {" ", "\t", "\n", "\f", "\r"}

\* \w of the regexp
IsWordChar(c) ==
    \/ \E i \in 1..Len(lowerLetters) : c \in {lowerLetters[i], upperLetters[i]}
    \/ c \in Digits \cup {"_"}

\* \b before the character at p
wordBoundary(str, p) ==
    LET before == p > 1 /\ IsWordChar(str[p - 1])
        after == p <= Len(str) /\ IsWordChar(str[p])
    IN  before # after

\* str has lit at p
HasAt(str, p, lit) ==
    /\ p + Len(lit) - 1 <= Len(str)
    /\ SubSeq(str, p, p + Len(lit) - 1) = lit

urlRePrefix_caseSensitive(str, p) ==
    \/ HasAt(str, p, <<"h", "t", "t", "p", ":", "/", "/">>)
    \/ HasAt(str, p, <<"h", "t", "t", "p", "s", ":", "/", "/">>)

\* (?i)https?:// at p
urlRePrefix(str, p) ==
    \/ HasAt(ToLower(str), p, <<"h", "t", "t", "p", ":", "/", "/">>)
    \/ HasAt(ToLower(str), p, <<"h", "t", "t", "p", "s", ":", "/", "/">>)

\* where a greedy .* would stop: at the last white space of the line of p,
\* or at the end of the text
urlReEnd_greedy(str, p) ==
    LET line == {e \in p..(Len(str) + 1) :
                    \A j \in p..(e - 1) : str[j] # "\n"}
        stops == {e \in line : e = Len(str) + 1 \/ IsSpace(str[e])}
    IN  CHOOSE e \in stops : \A f \in stops : f <= e

\* where .*? stops: the index of the first white space at or after p, and
\* Len(str) + 1 if there is none
urlReEnd(str, p) ==
    LET stops == {e \in p..(Len(str) + 1) : e = Len(str) + 1 \/ IsSpace(str[e])}
    IN  CHOOSE e \in stops : \A f \in stops : e <= f

\* the matches of urlRe from pos on, appended to urls
RECURSIVE findAll(_, _, _)
findAll(str, pos, urls) ==
    LET starts == {p \in pos..Len(str) :
                      wordBoundary(str, p) /\ urlRePrefix(str, p)}
    IN  IF starts = {} THEN urls
        ELSE LET p == CHOOSE x \in starts : \A y \in starts : x <= y
                 e == urlReEnd(str, p)
             IN  findAll(str, e + 1, Append(urls, SubSeq(str, p, e - 1)))

findURL(str) == findAll(str, 1, << >>)

\* the pieces messages are put together from
Pieces ==
    { <<"h", "t", "t", "p", ":", "/", "/", "a">>,
      <<"h", "t", "t", "p", "s", ":", "/", "/", "b">>,
      <<"H", "T", "T", "P", ":", "/", "/", "C">>,
      <<"f", "t", "p", ":", "/", "/", "d">>,
      <<"s", "e", "e">>,
      <<" ">>, <<"\n">>, <<",">> }

RECURSIVE Joined(_)
Joined(n) ==
    IF n = 0 THEN {<< >>}
    ELSE Joined(n - 1) \cup {m \o x : m \in Joined(n - 1), x \in Pieces}

twoURLs ==
    << "c", "h", "e", "c", "k", " ", "h", "t", "t", "p", "s", ":",
       "/", "/", "a", ".", "e", "x", "a", "m", "p", "l", "e", "/",
       "x", " ", "a", "n", "d", " ", "h", "t", "t", "p", "s", ":",
       "/", "/", "b", ".", "e", "x", "a", "m", "p", "l", "e", "/",
       "y" >>

letterBefore ==
    << "s", "e", "e", "h", "t", "t", "p", ":", "/", "/", "a", ".",
       "e", "x", "a", "m", "p", "l", "e" >>

Messages == Joined(MaxPieces) \cup {twoURLs, letterBefore}

InitFind ==
    /\ DispatcherIdle
    /\ \E m \in Messages :
          call = [op |-> "findURL", str |-> m, pos |-> "called", urls |-> << >>]

FindURL ==
    /\ call.op = "findURL"
    /\ call.pos = "called"
    /\ call' = [call EXCEPT !.pos = "returned", !.urls = findURL(call.str)]
    /\ UNCHANGED disp

NextFind == FindURL

SpecFind == InitFind /\ [][NextFind]_vars

(***************************************************************************)
(* The NOTICE lines.  Two messages, each with its own target and msgid,    *)
(* are handled at the same time; every line written to the connection by   *)
(* a pipeline is kept, together with the message whose pipeline wrote it.  *)
(***************************************************************************)
\* the largest number of URLs of a message whose lines are followed
MaxReplyUrls == 2

\* const replyTagName
replyTagName == "+draft/reply"

\* e.Params[0] of the messages: two channels
Targets == {"#a", "#b"}

\* the msgid tag of the messages; "" when the tag is missing or empty
MsgIds == {"", "id1", "id2"}

\* irc.Notice(target, text)
Notice(target, text) ==
    [command |-> "NOTICE", target |-> target, tags |-> {}, text |-> text]

\* irc.SendWithTags(tags, command, target, text)
SendWithTags(tags, command, target, text) ==
    [command |-> command, target |-> target, tags |-> tags, text |-> text]

\* mutant: the tag is sent whether or not there is a msgid
sendReplyNoticeLine_alwaysTagged(target, msgid, text) ==
    SendWithTags({<<replyTagName, msgid>>}, "NOTICE", target, text)

\* the line sendReplyNotice writes
sendReplyNoticeLine(target, msgid, text) ==
    IF msgid = ""
    THEN Notice(target, text)
    ELSE SendWithTags({<<replyTagName, msgid>>}, "NOTICE", target, text)

\* a message not seen yet
NoMsg == [target |-> "", msgid |-> "", urls |-> 0, k |-> 0, pos |-> "unseen"]

InitReply ==
    /\ capacity \in 1..MaxCapacity
    /\ semaphore = 0
    /\ crashed = FALSE
    /\ phase = [m \in Msgs |-> "unseen"]
    /\ found = [m \in Msgs |-> 0]
    /\ pc = [m \in Msgs |-> "none"]
    /\ idx = [m \in Msgs |-> 0]
    /\ pipe = [m \in Msgs |-> NoPipe]
    /\ call = [op |-> "reply", msg |-> [m \in Msgs |-> NoMsg], sent |-> {}]

\* the PRIVMSG callback: target, msgid and urls are handed to titleAll
ReplyPrivmsg(m) ==
    /\ call.op = "reply"
    /\ call.msg[m].pos = "unseen"
    /\ \E target \in Targets, msgid \in MsgIds, n \in 1..MaxReplyUrls :
          call' = [call EXCEPT !.msg[m] =
                     [target |-> target, msgid |-> msgid, urls |-> n, k |-> 0,
                      pos |-> "loop"]]
    /\ UNCHANGED disp

\* title(target, msgid, url) is entered for the next URL of m
ReplyTitle(m) ==
    /\ call.op = "reply"
    /\ call.msg[m].pos = "loop"
    /\ LET got == tryAcquireSemaphore(semaphore) IN
       /\ got.returns
       /\ semaphore' = got.sem
       /\ call' = [call EXCEPT !.msg[m] =
                     IF got.acquired THEN [@ EXCEPT !.pos = "waiting"]
                     ELSE [@ EXCEPT !.k = @ + 1,
                                    !.pos = IF call.msg[m].k + 1 < call.msg[m].urls
                                            THEN "loop" ELSE "done"]]
    /\ UNCHANGED <<capacity, crashed, phase, found, pc, idx, pipe>>

\* the resolver of m ends, with a title or without, and title() returns
ReplyResolved(m) ==
    /\ call.op = "reply"
    /\ call.msg[m].pos = "waiting"
    /\ LET me == call.msg[m]
           rel == releaseSemaphore(semaphore)
       IN  /\ rel.returns
           /\ semaphore' = rel.sem
           /\ \E titled \in BOOLEAN :
                 call' = [call EXCEPT
                    !.sent = IF titled
                             THEN @ \cup {[by |-> m, url |-> me.k + 1,
                                           line |-> sendReplyNoticeLine(
                                               me.target, me.msgid, "title")]}
                             ELSE @,
                    !.msg[m] = [me EXCEPT !.k = @ + 1,
                                          !.pos = IF me.k + 1 < me.urls
                                                  THEN "loop" ELSE "done"]]
    /\ UNCHANGED <<capacity, crashed, phase, found, pc, idx, pipe>>

NextReply ==
    \E m \in Msgs : ReplyPrivmsg(m) \/ ReplyTitle(m) \/ ReplyResolved(m)

SpecReply == InitReply /\ [][NextReply]_vars

(***************************************************************************)
(* extractBlueskyData and the choice of the resolver in title().           *)
(* blueskyRe is https://bsky\.app/profile/([^/]+)/post/([^/]+), matched    *)
(* anywhere in the URL and in this letter case only.                       *)
(***************************************************************************)
\* the text of blueskyRe before the handle
profileLit ==
    << "h", "t", "t", "p", "s", ":", "/", "/", "b", "s", "k", "y",
       ".", "a", "p", "p", "/", "p", "r", "o", "f", "i", "l", "e",
       "/" >>

\* the text of blueskyRe between the handle and the post id
postLit == <<"/", "p", "o", "s", "t", "/">>

\* where [^/]+ stops when it starts at p: the index of the first "/" at or
\* after p, Len(str) + 1 if there is none
slashFreeEnd(str, p) ==
    LET stops == {e \in p..(Len(str) + 1) : e = Len(str) + 1 \/ str[e] = "/"}
    IN  CHOOSE e \in stops : \A f \in stops : e <= f

\* the submatches of blueskyRe for a match that starts at p; ok tells
\* whether there is one
blueskyReAt(str, p) ==
    LET hs == p + Len(profileLit)
        he == slashFreeEnd(str, hs)
        ps == he + Len(postLit)
        pe == slashFreeEnd(str, ps)
    IN  IF /\ HasAt(str, p, profileLit)
           /\ he > hs
           /\ HasAt(str, he, postLit)
           /\ ps <= Len(str)
           /\ pe > ps
        THEN [ok |-> TRUE, handle |-> SubSeq(str, hs, he - 1),
              postid |-> SubSeq(str, ps, pe - 1)]
        ELSE [ok |-> FALSE, handle |-> << >>, postid |-> << >>]

\* mutant: the pattern ends after the handle
extractBlueskyData_profileOnly(url) ==
    LET starts == {p \in 1..Len(url) :
                      /\ HasAt(url, p, profileLit)
                      /\ slashFreeEnd(url, p + Len(profileLit)) > p + Len(profileLit)}
    IN  IF starts = {} THEN [handle |-> << >>, postid |-> << >>]
        ELSE LET p == CHOOSE x \in starts : \A y \in starts : x <= y
             IN  [handle |-> SubSeq(url, p + Len(profileLit),
                                    slashFreeEnd(url, p + Len(profileLit)) - 1),
                  postid |-> << >>]

\* FindStringSubmatch takes the leftmost match; without one both results
\* are ""
extractBlueskyData(url) ==
    LET starts == {p \in 1..Len(url) : blueskyReAt(url, p).ok}
    IN  IF starts = {} THEN [handle |-> << >>, postid |-> << >>]
        ELSE LET m == blueskyReAt(url, CHOOSE x \in starts : \A y \in starts : x <= y)
             IN  [handle |-> m.handle, postid |-> m.postid]

\* the last statement of title(): the resolvers it calls for url
titleDispatch(url) ==
    IF extractBlueskyData(url).handle # << >>
    THEN {"titleBluesky"}
    ELSE {"titleGeneric"}

\* the URLs that are classified, put together from these parts
ClassifyLead == {<< >>, <<"h", "t", "t", "p", ":", "/", "/", "x", "/", "?", "u", "=">>}

ClassifyProfile ==
    { profileLit,
      << "H", "T", "T", "P", "S", ":", "/", "/", "B", "S", "K", "Y",
         ".", "A", "P", "P", "/", "p", "r", "o", "f", "i", "l", "e",
         "/" >>,
      << "h", "t", "t", "p", "s", ":", "/", "/", "b", "s", "k", "y",
         ".", "a", "p", "p", "/", "p", "r", "o", "f", "i", "l", "e",
         "s", "/" >> }

ClassifyHandle == {<< >>, <<"a", ".", "b">>, <<"a", "/", "b">>}

ClassifyMid == {<< >>, postLit, <<"/", "p", "o", "s", "t">>, <<"/", "f", "e", "e", "d", "/">>, <<"/", "P", "O", "S", "T", "/">>}

ClassifyPost == {<< >>, <<"3", "k">>, <<"3", "k", "/", "x">>}

ClassifyURLs ==
    {a \o b \o c \o d \o e :
        a \in ClassifyLead, b \in ClassifyProfile, c \in ClassifyHandle,
        d \in ClassifyMid, e \in ClassifyPost}
    \cup {<< "h", "t", "t", "p", "s", ":", "/", "/", "e", "x", "a", "m",
            "p", "l", "e", ".", "o", "r", "g", "/" >>}

InitClassify ==
    /\ DispatcherIdle
    /\ \E u \in ClassifyURLs :
          call = [op |-> "title", url |-> u, pos |-> "called", calls |-> {},
                  handle |-> << >>, postid |-> << >>]

\* title() reaches its last statement and calls a resolver
Classify ==
    /\ call.op = "title"
    /\ call.pos = "called"
    /\ call' = [call EXCEPT !.pos = "dispatched",
                             !.calls = titleDispatch(call.url),
                             !.handle = extractBlueskyData(call.url).handle,
                             !.postid = extractBlueskyData(call.url).postid]
    /\ UNCHANGED disp

NextClassify == Classify

SpecClassify == InitClassify /\ [][NextClassify]_vars

(***************************************************************************)
(* titleGeneric with its texts: one title() call on a URL that is no       *)
(* Bluesky post, from the entry of title() to its return.  The body of     *)
(* the response is a sequence of characters; genericTitleRe is             *)
(* (?is)<\s*title\b.*?>(.*?)< .                                            *)
(***************************************************************************)
\* const titleCharLimit
titleCharLimit == 400

titleLit == <<"t", "i", "t", "l", "e">>

\* the index of the first c in str at or after p, 0 if there is none
IndexFrom(str, p, c) ==
    IF \E i \in p..Len(str) : str[i] = c
    THEN CHOOSE i \in p..Len(str) : str[i] = c /\ \A j \in p..(i - 1) : str[j] # c
    ELSE 0

\* the submatch of genericTitleRe for a match that starts at p
genericTitleReAt(body, p) ==
    LET \* \s*
        spaces == {e \in (p + 1)..(Len(body) + 1) :
                      \A j \in (p + 1)..(e - 1) : IsSpace(body[j])}
        ws == CHOOSE e \in spaces : \A f \in spaces : f <= e
        te == ws + Len(titleLit)
        \* .*?> and (.*?)<
        gt == IndexFrom(body, te, ">")
        lt == IF gt = 0 THEN 0 ELSE IndexFrom(body, gt + 1, "<")
    IN  IF /\ p <= Len(body) /\ body[p] = "<"
           /\ HasAt(ToLower(body), ws, titleLit)
           \* \b after title
           /\ te <= Len(body) /\ ~IsWordChar(body[te])
           /\ gt # 0 /\ lt # 0
        THEN [ok |-> TRUE, title |-> SubSeq(body, gt + 1, lt - 1)]
        ELSE [ok |-> FALSE, title |-> << >>]

\* titleRe.FindSubmatch(body): the leftmost match
FindSubmatch(body) ==
    LET starts == {p \in 1..Len(body) : genericTitleReAt(body, p).ok}
    IN  IF starts = {} THEN [ok |-> FALSE, title |-> << >>]
        ELSE genericTitleReAt(body, CHOOSE x \in starts : \A y \in starts : x <= y)

\* the character references html.UnescapeString is followed on
entities ==
    << [name |-> <<"&", "a", "m", "p", ";">>, char |-> "&"],
       [name |-> <<"&", "l", "t", ";">>, char |-> "<"],
       [name |-> <<"&", "g", "t", ";">>, char |-> ">"],
       [name |-> <<"&", "q", "u", "o", "t", ";">>, char |-> "\""],
       [name |-> <<"&", "#", "3", "2", ";">>, char |-> " "] >>

\* mutant: the title is sent as it stands in the page
UnescapeString_none(str) == str

RECURSIVE UnescapeFrom(_, _)
UnescapeFrom(str, i) ==
    IF i > Len(str) THEN << >>
    ELSE IF \E e \in 1..Len(entities) : HasAt(str, i, entities[e].name)
    THEN LET e == CHOOSE x \in 1..Len(entities) : HasAt(str, i, entities[x].name)
         IN  <<entities[e].char>> \o UnescapeFrom(str, i + Len(entities[e].name))
    ELSE <<str[i]>> \o UnescapeFrom(str, i + 1)

\* html.UnescapeString
UnescapeString(str) == UnescapeFrom(str, 1)

\* strings.TrimSpace
TrimSpace(str) ==
    LET keep == {i \in 1..Len(str) : ~IsSpace(str[i])} IN
    IF keep = {} THEN << >>
    ELSE SubSeq(str, CHOOSE i \in keep : \A j \in keep : i <= j,
                     CHOOSE i \in keep : \A j \in keep : j <= i)

\* the control character of the texts: the byte 0, written "NUL"
IsControl(c) == c = "NUL"

\* ircutils.SanitizeText(str, limit): control characters are dropped and
\* the text is cut to limit characters
SanitizeText(str, limit) ==
    LET clean == SelectSeq(str, LAMBDA c : ~IsControl(c)) IN
    SubSeq(clean, 1, IF Len(clean) < limit THEN Len(clean) ELSE limit)

\* io.ReadAll of io.LimitedReader{R: resp.Body, N: byteLimit}
ReadLimited(body, byteLimit) ==
    SubSeq(body, 1, IF Len(body) < byteLimit THEN Len(body) ELSE byteLimit)

\* mutant: the len(title) != 0 test is missing
titleIsSent_always(title) == TRUE

\* if len(title) != 0
titleIsSent(title) == Len(title) # 0

\* the URLs titleGeneric is called with: an unlisted host, a listed one,
\* and a port that is no number
plainURL ==
    << "h", "t", "t", "p", ":", "/", "/", "e", "x", "a", "m", "p",
       "l", "e", ".", "o", "r", "g", "/" >>

listedURL ==
    << "h", "t", "t", "p", ":", "/", "/", "w", "w", "w", ".", "y",
       "o", "u", "t", "u", "b", "e", ".", "c", "o", "m", "/", "w",
       "a", "t", "c", "h" >>

badPortURL ==
    << "h", "t", "t", "p", ":", "/", "/", "e", "x", "a", "m", "p",
       "l", "e", ".", "o", "r", "g", ":", "x", "/" >>

GenericURLs == {plainURL, listedURL, badPortURL}

\* the bodies, put together from what stands before the title element,
\* its start tag, its text and what follows
BodyHeads == {<< >>, <<"<", "h", "t", "m", "l", ">", "<", "h", "e", "a", "d", ">">>}

BodyOpens ==
    { <<"<", "t", "i", "t", "l", "e", ">">>,
      << "<", "T", "I", "T", "L", "E", " ", "l", "a", "n", "g", "=",
         "e", "n", ">" >>,
      <<"<", " ", "t", "i", "t", "l", "e", ">">>,
      <<"<", "t", "i", "t", "l", "e", "s", ">">> }

helloText ==
    << " ", " ", "H", "e", "l", "l", "o", " ", "&", "a", "m", "p",
       ";", " ", "W", "o", "r", "l", "d", " ", " " >>

BodyTexts ==
    { helloText, <<" ", " ", " ">>, << >>, <<"NUL">>,
      <<"&", "#", "3", "2", ";">>,
      <<"a", "&", "l", "t", ";", "b">> }

BodyTails == {<< >>, << "<", "/", "t", "i", "t", "l", "e", ">", "<", "/", "h", "e",
                 "a", "d", ">" >>}

noTitleBody ==
    << "<", "h", "t", "m", "l", ">", "<", "p", ">", "x", "<", "/",
       "p", ">" >>

Bodies ==
    {a \o b \o c \o d :
        a \in BodyHeads, b \in BodyOpens, c \in BodyTexts, d \in BodyTails}
    \cup {noTitleBody}

\* the answer to the GET of titleGeneric: the error of Do, the status, the
\* error of ReadAll and the bytes read
GenericPages ==
    [err : BOOLEAN, status : {200, 404},
     read : {"nil", "ErrUnexpectedEOF", "other"}, body : Bodies]

InitGeneric ==
    /\ DispatcherIdle
    /\ \E u \in GenericURLs, target \in Targets, msgid \in {"", "id1"},
          debug \in BOOLEAN :
          call = [op |-> "titleGeneric", target |-> target, msgid |-> msgid,
                  url |-> u, debug |-> debug, pos |-> "entry", reqs |-> 0,
                  sent |-> << >>, logs |-> 0, resp |-> NoResp]

\* title() is entered; titleGeneric runs up to httpClient.Do
GenericEnter ==
    /\ call.op = "titleGeneric"
    /\ call.pos = "entry"
    /\ LET got == tryAcquireSemaphore(semaphore) IN
       /\ got.returns /\ got.acquired
       /\ semaphore' = got.sem
    /\ titleDispatch(call.url) = {"titleGeneric"}
    /\ call' = IF analyzeURL(call.url).err
               \* checkErr(err, "invalid URL")
               THEN [call EXCEPT !.pos = "deferred", !.logs = @ + 1]
               ELSE [call EXCEPT !.pos = "do", !.reqs = @ + 1]
    /\ UNCHANGED <<capacity, crashed, phase, found, pc, idx, pipe>>

\* httpClient.Do returns; titleGeneric runs to its end
GenericPage ==
    /\ call.op = "titleGeneric"
    /\ call.pos = "do"
    /\ \E r \in GenericPages :
          LET body == ReadLimited(r.body, analyzeURL(call.url).byteLimit)
              titleMatch == FindSubmatch(body)
              title == SanitizeText(TrimSpace(UnescapeString(titleMatch.title)),
                                    titleCharLimit)
              success == titleMatch.ok /\ titleIsSent(title)
              c == [call EXCEPT !.resp = r, !.pos = "deferred"]
          IN  call' =
                IF r.err THEN [c EXCEPT !.logs = @ + 1]
                ELSE IF r.status # 200
                THEN [c EXCEPT !.logs = @ + (IF call.debug THEN 1 ELSE 0)]
                ELSE IF r.read = "other" THEN [c EXCEPT !.logs = @ + 1]
                ELSE IF success
                THEN [c EXCEPT !.sent = Append(@,
                         sendReplyNoticeLine(call.target, call.msgid, title))]
                ELSE [c EXCEPT !.logs = @ + (IF call.debug THEN 1 ELSE 0)]
    /\ UNCHANGED disp

\* the deferred calls of title() and its return
GenericDeferred ==
    /\ call.op = "titleGeneric"
    /\ call.pos = "deferred"
    /\ LET rel == releaseSemaphore(semaphore) IN
       /\ rel.returns
       /\ semaphore' = rel.sem
    /\ call' = [call EXCEPT !.pos = "done",
                             !.logs = @ + titleDeferredLogs(call.debug, FALSE)]
    /\ UNCHANGED <<capacity, crashed, phase, found, pc, idx, pipe>>

NextGeneric == GenericEnter \/ GenericPage \/ GenericDeferred

SpecGeneric == InitGeneric /\ [][NextGeneric]_vars

(***************************************************************************)
(* godgets.Semaphore (src/unnamed/part_000): a channel of capacity         *)
(* `capacity` whose fill is `semaphore`, used by several callers at once.  *)
(* A caller releases only what it has acquired.                            *)
(***************************************************************************)
\* the number of goroutines that use the semaphore
MaxCallers == 3

Callers == 1..MaxCallers

\* make(chan empty, capacity): the capacity of the channel
NewSemaphore(n) == n

\* semaphore <- empty{}: a send, which waits while the channel is full
Acquire(s) ==
    [returns |-> s < capacity, sem |-> s + 1]

\* mutant: TryAcquire sends as Acquire does and returns only when there is room
TryAcquire_waits(s) ==
    [returns |-> s < capacity, acquired |-> TRUE, sem |-> s + 1]

\* select { case semaphore <- empty{}: return true; default: return false }
TryAcquire(s) ==
    IF s < capacity
    THEN [returns |-> TRUE, acquired |-> TRUE, sem |-> s + 1]
    ELSE [returns |-> TRUE, acquired |-> FALSE, sem |-> s]

\* <-semaphore: a receive, which waits while the channel is empty
Release(s) ==
    [returns |-> s > 0, sem |-> s - 1]

\* a caller that has not used the semaphore: pos is where it stands
\* ("idle", "acquiring" inside Acquire, "holding"), last is what its last
\* TryAcquire returned
NoCaller == [pos |-> "idle", last |-> "none"]

InitSemaphore ==
    /\ \E n \in 1..MaxCapacity : capacity = NewSemaphore(n)
    /\ semaphore = 0
    /\ crashed = FALSE
    /\ phase = [m \in Msgs |-> "unseen"]
    /\ found = [m \in Msgs |-> 0]
    /\ pc = [m \in Msgs |-> "none"]
    /\ idx = [m \in Msgs |-> 0]
    /\ pipe = [m \in Msgs |-> NoPipe]
    /\ call = [op |-> "Semaphore", caller |-> [c \in Callers |-> NoCaller]]

\* caller c calls TryAcquire, which returns at once
SemTryAcquire(c) ==
    /\ call.op = "Semaphore"
    /\ call.caller[c].pos = "idle"
    /\ LET got == TryAcquire(semaphore) IN
       /\ got.returns
       /\ semaphore' = got.sem
       /\ call' = [call EXCEPT !.caller[c] =
                     IF got.acquired
                     THEN [pos |-> "holding", last |-> "true"]
                     ELSE [pos |-> "idle", last |-> "false"]]
    /\ UNCHANGED <<capacity, crashed, phase, found, pc, idx, pipe>>

\* caller c calls Acquire and stands at the send
SemAcquireCall(c) ==
    /\ call.op = "Semaphore"
    /\ call.caller[c].pos = "idle"
    /\ call' = [call EXCEPT !.caller[c].pos = "acquiring"]
    /\ UNCHANGED disp

\* the send of Acquire goes through and Acquire returns
SemAcquire(c) ==
    /\ call.op = "Semaphore"
    /\ call.caller[c].pos = "acquiring"
    /\ LET got == Acquire(semaphore) IN
       /\ got.returns
       /\ semaphore' = got.sem
    /\ call' = [call EXCEPT !.caller[c].pos = "holding"]
    /\ UNCHANGED <<capacity, crashed, phase, found, pc, idx, pipe>>

\* caller c, which holds the semaphore, calls Release
SemRelease(c) ==
    /\ call.op = "Semaphore"
    /\ call.caller[c].pos = "holding"
    /\ LET rel == Release(semaphore) IN
       /\ rel.returns
       /\ semaphore' = rel.sem
    /\ call' = [call EXCEPT !.caller[c].pos = "idle"]
    /\ UNCHANGED <<capacity, crashed, phase, found, pc, idx, pipe>>

NextSemaphore ==
    \E c \in Callers :
        SemTryAcquire(c) \/ SemAcquireCall(c) \/ SemAcquire(c) \/ SemRelease(c)

SpecSemaphore == InitSemaphore /\ [][NextSemaphore]_vars

(***************************************************************************)
(* Vocabulary of the properties.                                           *)
(***************************************************************************)
\* the pipeline of m holds a token: acquired and not yet released
Holding(m) == pipe[m].admitted /\ pipe[m].released = 0

\* the title() call of m started last has returned
Returned(m) == pc[m] \in {"loop", "done"} /\ idx[m] > 0

\* the goroutine of m is between the launch of titleAll and its end
Running(m) == pc[m] \in {"loop", "deferred"} \cup Waiting

\* m's title() is entered in this step
Enters(m) ==
    /\ pc[m] = "loop"
    /\ <<pc[m], idx[m], pipe[m]>> # <<pc'[m], idx'[m], pipe'[m]>>

Min(a, b) == IF a < b THEN a ELSE b

(***************************************************************************)
(* C1.  At most `capacity` tokens are outstanding in every reachable       *)
(* state: the pipelines that were admitted and have not released are at    *)
(* most capacity, and so is the fill of the channel.                       *)
(***************************************************************************)
C1_TokensBounded ==
    /\ semaphore <= capacity
    /\ Cardinality({m \in Msgs : Holding(m)}) <= capacity

\* capacity + 1 attempts: capacity holders, and one attempt turned away
C1_Witness ==
    /\ Cardinality({m \in Msgs : Holding(m)}) = capacity
    /\ \E m \in Msgs : pipe[m].outcome = "rejected"

(***************************************************************************)
(* C2.  tryAcquireSemaphore never blocks: a goroutine at the entry of      *)
(* title() can always take its step, and that step admits it and takes     *)
(* one token iff fewer than capacity tokens are out, and otherwise         *)
(* rejects it and leaves the pool as it was.                               *)
(***************************************************************************)
C2_TryAcquireNeverBlocks ==
    /\ [](\A m \in Msgs : (pc[m] = "loop" /\ ~crashed) => ENABLED Title(m))
    /\ [][\A m \in Msgs : Enters(m) =>
            IF semaphore < capacity
            THEN pipe'[m].admitted /\ semaphore' = semaphore + 1
            ELSE ~pipe'[m].admitted /\ semaphore' = semaphore]_vars

\* a pipeline was turned away, is already back in the loop, and the pool is
\* still full
C2_Witness ==
    \E m \in Msgs :
        /\ pipe[m].outcome = "rejected"
        /\ pc[m] = "loop"
        /\ semaphore = capacity

(***************************************************************************)
(* C3.  releaseSemaphore runs exactly once for an admitted title() call    *)
(* on every way out, and never for a rejected one; when it runs the pool   *)
(* is not empty, and the fill of the pool is exactly the number of         *)
(* pipelines that hold a token.                                            *)
(***************************************************************************)
C3_ReleaseExactlyOnce ==
    /\ \A m \in Msgs :
          /\ pc[m] \in Waiting \cup {"deferred"} =>
                 pipe[m].admitted /\ pipe[m].released = 0
          /\ Returned(m) =>
                 pipe[m].released = (IF pipe[m].admitted THEN 1 ELSE 0)
          /\ pc[m] = "deferred" => releaseSemaphore(semaphore).returns
    /\ semaphore = Cardinality({m \in Msgs : Holding(m)})

\* one call left by an early return of the resolver and released, another was
\* rejected and did not release
C3_Witness ==
    \E m, o \in Msgs :
        /\ Returned(m) /\ pipe[m].outcome = "badurl" /\ pipe[m].released = 1
        /\ Returned(o) /\ pipe[o].outcome = "rejected" /\ pipe[o].released = 0

(***************************************************************************)
(* C4.  A panic inside a resolver is recovered in title(): the process     *)
(* never dies, the token of the panicking pipeline is given back, the      *)
(* loop of titleAll goes on to the next URL of the message, and the        *)
(* goroutines of the other messages can still take their steps.            *)
(***************************************************************************)
C4_PanicRecovered ==
    /\ ~crashed
    /\ \A m \in Msgs :
          (pipe[m].outcome = "panic" /\ Returned(m)) =>
              /\ pipe[m].released = 1
              /\ idx[m] < Truncate(found[m]) => ENABLED Title(m)
              /\ idx[m] = Truncate(found[m]) => pc[m] = "done"
              /\ \A o \in Msgs \ {m} : Running(o) => ENABLED Step(o)

\* a pipeline has panicked and returned, its message has a URL left, and
\* another message is in the middle of a fetch
C4_Witness ==
    \E m, o \in Msgs :
        /\ pipe[m].outcome = "panic" /\ pc[m] = "loop" /\ idx[m] > 0
        /\ pc[o] \in Waiting

C6_EntryPointReturns ==
    /\ [](\A m \in Msgs : (phase[m] = "unseen" /\ ~crashed) => ENABLED Privmsg(m))
    /\ [][\A m \in Msgs : (phase[m] = "unseen" /\ phase'[m] = "handled") =>
            /\ pc'[m] = (IF found'[m] > 0 THEN "loop" ELSE "none")
            /\ idx'[m] = 0
            /\ pipe' = pipe
            /\ semaphore' = semaphore
            /\ \A o \in Msgs \ {m} : pc'[o] = pc[o]]_vars

\* a message was handled and its goroutine launched while the pipeline of
\* the other message is still waiting for a response
C6_Witness ==
    \E m, o \in Msgs :
        /\ pc[m] \in Waiting
        /\ phase[o] = "handled" /\ pc[o] = "loop" /\ idx[o] = 0
        /\ pipe[o] = NoPipe

(***************************************************************************)
(* C7.  A URL whose admission fails is dropped for good: its title() call  *)
(* returns at once having issued no request, sent no notice and released   *)
(* nothing, and the loop moves on to the next URL and never comes back.    *)
(***************************************************************************)
C7_RejectedIsDropped ==
    /\ [](\A m \in Msgs : pipe[m].outcome = "rejected" =>
            /\ Returned(m)
            /\ pipe[m].reqs = 0 /\ pipe[m].notices = 0 /\ pipe[m].released = 0)
    /\ [][\A m \in Msgs :
            /\ idx'[m] >= idx[m]
            /\ (Enters(m) /\ pipe'[m].outcome = "rejected") =>
                   idx'[m] = idx[m] + 1]_vars

\* a URL was rejected, its message is finished, and every token is free again
C7_Witness ==
    \E m \in Msgs :
        /\ pipe[m].outcome = "rejected"
        /\ pc[m] = "done"
        /\ semaphore = 0
        /\ \A o \in Msgs : pc[o] = "done"

(***************************************************************************)
(* C8.  A pipeline that fails in any way sends no notice: a notice is      *)
(* sent only by a resolution that met no failure.                          *)
(***************************************************************************)
C8_FailureIsSilent ==
    \A m \in Msgs :
        /\ pipe[m].failed => pipe[m].notices = 0
        /\ pipe[m].notices > 0 => pipe[m].outcome = "sent"

\* both resolvers have failed after their requests, without a notice
C8_Witness ==
    \E m, o \in Msgs :
        /\ Returned(m) /\ pipe[m].failed /\ pipe[m].outcome = "notitle"
        /\ Returned(o) /\ pipe[o].failed /\ pipe[o].outcome = "badtime"
        /\ pipe[m].notices = 0 /\ pipe[o].notices = 0

(***************************************************************************)
(* C9.  A title() call sends at most one notice.                           *)
(***************************************************************************)
C9_AtMostOneNotice ==
    \A m \in Msgs : pipe[m].notices <= 1

\* a Bluesky pipeline and a generic one have each sent their notice
C9_Witness ==
    \E m, o \in Msgs :
        /\ Returned(m) /\ pipe[m].notices = 1 /\ pipe[m].reqs = 2
        /\ Returned(o) /\ pipe[o].notices = 1 /\ pipe[o].reqs = 1

(***************************************************************************)
(* C10.  Of the n URLs found in a message, title() is entered for the      *)
(* first min(n, 4) only: the goroutine is at a URL whose index is below    *)
(* min(n, 4) while it runs and has made exactly min(n, 4) calls when it    *)
(* ends; with no URL no goroutine is launched.                             *)
(***************************************************************************)
C10_FirstFourOnly ==
    \A m \in Msgs :
        /\ Running(m) => idx[m] < Min(found[m], 4)
        /\ pc[m] = "done" => idx[m] = Min(found[m], 4)
        /\ phase[m] = "handled" => (found[m] = 0 <=> pc[m] = "none")
        /\ pc[m] = "none" => idx[m] = 0

\* five URLs were found and the goroutine has ended after four calls
C10_Witness ==
    \E m \in Msgs : found[m] = 5 /\ pc[m] = "done" /\ idx[m] = 4

(***************************************************************************)
(* C11.  If every HTTP call returns, no token leaks: every pipeline that   *)
(* holds a token gives it back, and once the messages that arrived are     *)
(* worked off the pool is empty and stays empty.                           *)
(***************************************************************************)
C11_NoTokenLeak ==
    /\ <>[](semaphore = 0)
    /\ \A m \in Msgs : pc[m] \in Waiting \cup {"deferred"} ~> Returned(m)

\* both messages are worked off, tokens were taken and all are back
C11_Witness ==
    /\ \A m \in Msgs : pc[m] = "done" /\ pipe[m].admitted /\ pipe[m].released = 1
    /\ \E m \in Msgs : pipe[m].outcome = "panic"
    /\ semaphore = 0

(***************************************************************************)
(* C12.  In a Bluesky pipeline the getRecord request is issued only after  *)
(* resolveHandle has answered with status 200, decodable JSON and a        *)
(* non-empty did; after any failure of that step (transport error, other   *)
(* status, undecodable JSON, empty did) the pipeline ends with the one     *)
(* request it made.                                                        *)
(***************************************************************************)
C12_IdentityBeforeRecord ==
    /\ call.pos = "resolve" => (call.reqs = 1 /\ call.record = NoResp)
    /\ (call.reqs = 2 \/ call.record # NoResp \/ call.pos = "record") =>
          /\ call.resolve # NoResp
          /\ ~ResolveFailed(call.resolve)
          /\ call.reqs = 2
    /\ (call.resolve # NoResp /\ ResolveFailed(call.resolve)) =>
          /\ call.reqs = 1
          /\ call.record = NoResp
          /\ call.pos \in {"deferred", "done"}

\* resolveHandle answered 200 with an empty did: the call is over after one
\* request
C12_Witness ==
    /\ call.pos = "done"
    /\ call.resolve # NoResp
    /\ ~call.resolve.err /\ call.resolve.status = 200 /\ ~call.resolve.badjson
    /\ ~call.resolve.panics /\ call.resolve.did = ""
    /\ call.reqs = 1

(***************************************************************************)
(* C13.  With irc.Debug off, a Bluesky pipeline whose resolveHandle call   *)
(* answers 404 sends no notice and writes exactly one log line.            *)
(***************************************************************************)
C13_Resolve404 ==
    (/\ call.pos = "done"
     /\ ~call.debug
     /\ ~call.resolve.err /\ call.resolve.status = 404 /\ ~call.resolve.panics)
        => (call.notices = 0 /\ call.logs = 1 /\ call.reqs = 1)

\* the 404 answer carried a decodable body with a did, and the call is over
C13_Witness ==
    /\ call.pos = "done"
    /\ ~call.debug
    /\ ~call.resolve.err /\ call.resolve.status = 404 /\ ~call.resolve.panics
    /\ ~call.resolve.badjson /\ call.resolve.did = "did"

(***************************************************************************)
(* C14.  When getRecord answers with a status other than 200 or with       *)
(* undecodable JSON, the pipeline ends having written at least one log     *)
(* line and sent no notice.                                                *)
(***************************************************************************)
C14_RecordFailureAborts ==
    (/\ call.record # NoResp
     /\ ~call.record.err /\ ~call.record.panics
     /\ (call.record.status # 200 \/ call.record.badjson))
        => /\ call.pos \in {"deferred", "done"}
           /\ call.notices = 0
           /\ call.logs >= 1

\* getRecord answered 404 with a body that would have parsed, and another
\* shape: the call is over without a notice
C14_Witness ==
    /\ call.pos = "done"
    /\ call.record # NoResp
    /\ ~call.record.err /\ ~call.record.panics
    /\ call.record.status = 404 /\ ~call.record.badjson
    /\ call.record.createdAt = "good"
    /\ call.notices = 0

(***************************************************************************)
(* Vocabulary of the time properties.                                      *)
(***************************************************************************)
Hours(n) == Dur(n * 3600, 0)

\* the counts of the decomposition of d into y, d, h, m, s, ms
Decomposition(d) ==
    LET inDay == d.s % 86400 IN
    << [count |-> d.s \div 31536000, name |-> "y"],
       [count |-> (d.s % 31536000) \div 86400, name |-> "d"],
       [count |-> inDay \div 3600, name |-> "h"],
       [count |-> (inDay % 3600) \div 60, name |-> "m"],
       [count |-> inDay % 60, name |-> "s"],
       [count |-> d.ns \div 1000000, name |-> "ms"] >>

\* the first n entries of a sequence, or all of it
Take(q, n) == SubSeq(q, 1, Min(n, Len(q)))

\* the largest two non-zero units of d, in descending order
LargestTwo(d) == Take(SelectSeq(Decomposition(d), LAMBDA u : u.count > 0), 2)

(***************************************************************************)
(* C15.  An elapsed time of exactly 25 hours is rendered "1d1h ago", and   *)
(* one of 8 days as an absolute date.                                      *)
(***************************************************************************)
C15_TwentyFiveHours ==
    call.pos = "returned" =>
        /\ call.elapsed = Hours(25) =>
               call.out = [kind |-> "ago",
                           units |-> << [count |-> 1, name |-> "d"],
                                        [count |-> 1, name |-> "h"] >>]
        /\ call.elapsed = Hours(8 * 24) => call.out.kind = "date"

(***************************************************************************)
(* C16.  Every elapsed time of at most 7 days is rendered as the largest   *)
(* two non-zero units of its decomposition into y, d, h, m, s, ms, in      *)
(* descending order and with their exact counts.                           *)
(***************************************************************************)
C16_LargestTwoUnits ==
    (call.pos = "returned" /\ ~DurGt(call.elapsed, Hours(7 * 24))) =>
        call.out = [kind |-> "ago", units |-> LargestTwo(call.elapsed)]

(***************************************************************************)
(* Vocabulary of the host properties.                                      *)
(***************************************************************************)
\* h equals d or h ends with "." followed by d
EqualsOrSubdomain(h, d) == h = d \/ HasSuffix(h, <<".">> \o d)

(***************************************************************************)
(* C17 as stated.  domainMatch(h, d) is true iff h equals d or h ends with *)
(* "." followed by d, for all hosts and domains over the alphabet, the     *)
(* empty string included.                                                  *)
(***************************************************************************)
C17_MatchIffEqualsOrSubdomain ==
    call.pos = "returned" =>
        (call.out <=> EqualsOrSubdomain(call.host, call.domain))

(***************************************************************************)
(* C17.  domainMatch(h, d) is true iff d is not empty and h equals d or h  *)
(* ends with "." followed by d; for the empty domain it is false for every *)
(* host.  The cases of TestDomainMatch come out as the test expects.       *)
(***************************************************************************)
C17_MatchIffNonEmptyDomain ==
    call.pos = "returned" =>
        /\ call.out <=> (/\ call.domain # << >>
                         /\ EqualsOrSubdomain(call.host, call.domain))
        /\ \A t \in testCases :
              (call.host = t.host /\ call.domain = t.domain) =>
                  call.out = t.shouldMatch

\* a domain that is a suffix of the host but not after a dot is refused
C17_Witness ==
    /\ call.op = "domainMatch"
    /\ call.pos = "returned"
    /\ call.domain # << >>
    /\ HasSuffix(call.host, call.domain)
    /\ ~call.out

\* the host is a listed domain or a subdomain of one
Listed(h) ==
    \E i \in 1..Len(garbageJSDomains) : EqualsOrSubdomain(h, garbageJSDomains[i])

(***************************************************************************)
(* C18.  For a URL that parses, analyzeURL returns the extended limit      *)
(* (1 MiB) when the lower-case host without its port is a listed domain or *)
(* a subdomain of one, and the standard limit otherwise, whatever the      *)
(* letter case of the host, the port, the path and the calls made before;  *)
(* it returns an error exactly when the port is not a number.              *)
(***************************************************************************)
C18_LimitFromHost ==
    (call.op = "analyzeURL" /\ call.pos = "returned") =>
        /\ call.out.err <=> (\E i \in 1..Len(call.parts.port) :
                                call.parts.port[i] \notin Digits \cup {":"})
        /\ ~call.out.err =>
               call.out.byteLimit =
                   IF Listed(call.parts.host) THEN 1048576 ELSE 65536

\* a second call, for an upper-case subdomain with a port and a path
C18_Witness ==
    /\ call.op = "analyzeURL"
    /\ call.pos = "returned"
    /\ call.n = 2
    /\ call.parts.casing = "upper"
    /\ call.parts.host = <<"w", "w", "w", ".">> \o garbageJSDomains[5]
    /\ call.parts.port # << >>
    /\ call.parts.tail # << >>
    /\ call.out.byteLimit = trustedReadLimit

(***************************************************************************)
(* Vocabulary of the URL properties.                                       *)
(***************************************************************************)
\* the run of str from p up to the next white space or the end
Run(str, p) ==
    LET rest == SubSeq(str, p, Len(str))
        stop == IF \E i \in 1..Len(rest) : IsSpace(rest[i])
                THEN CHOOSE i \in 1..Len(rest) :
                         IsSpace(rest[i]) /\ \A j \in 1..(i - 1) : ~IsSpace(rest[j])
                ELSE Len(rest) + 1
    IN  SubSeq(rest, 1, stop - 1)

\* http:// or https:// in any letter case begins at p
PrefixAt(str, p) ==
    \E lit \in {<<"h", "t", "t", "p", ":", "/", "/">>,
                 <<"h", "t", "t", "p", "s", ":", "/", "/">>} :
        /\ p + Len(lit) - 1 <= Len(str)
        /\ \A i \in 1..Len(lit) :
              str[p + i - 1] \in {lit[i], MapChar(lit[i], lowerLetters, upperLetters)}

\* the prefix at p is at the start or after a character that is no letter,
\* digit or underscore
Delimited(str, p) == p = 1 \/ ~IsWordChar(str[p - 1])

\* the places a candidate begins at: a delimited prefix with white space
\* between it and every delimited prefix before it
CandidateStarts(str) ==
    {p \in 1..Len(str) :
        /\ PrefixAt(str, p) /\ Delimited(str, p)
        /\ \A r \in 1..(p - 1) :
              (PrefixAt(str, r) /\ Delimited(str, r)) =>
                  \E j \in r..(p - 1) : IsSpace(str[j])}

\* the members of a set of numbers in ascending order
RECURSIVE Ascending(_)
Ascending(S) ==
    IF S = {} THEN << >>
    ELSE LET least == CHOOSE x \in S : \A y \in S : x <= y
         IN  <<least>> \o Ascending(S \ {least})

(***************************************************************************)
(* C19.  findURL returns the candidate URLs in order of occurrence, each   *)
(* running from its http:// or https:// prefix up to the next white space  *)
(* or the end; the message with the two example URLs yields exactly those  *)
(* two, and a message without http:// or https:// yields none.             *)
(***************************************************************************)
C19_CandidatesInOrder ==
    (call.op = "findURL" /\ call.pos = "returned") =>
        /\ call.str = twoURLs =>
               call.urls = << SubSeq(twoURLs, 7, 25), SubSeq(twoURLs, 31, 49) >>
        /\ (\A p \in 1..Len(call.str) : ~PrefixAt(call.str, p)) =>
               call.urls = << >>
        /\ \A i \in 1..Len(call.urls) :
              \E p \in 1..Len(call.str) :
                  /\ PrefixAt(call.str, p)
                  /\ call.urls[i] = Run(call.str, p)
                  /\ i < Len(call.urls) =>
                         \E r \in (p + 1)..Len(call.str) :
                             /\ PrefixAt(call.str, r)
                             /\ call.urls[i + 1] = Run(call.str, r)

\* two URLs with different letter case, found in their order
C19_Witness ==
    /\ call.op = "findURL"
    /\ call.pos = "returned"
    /\ Len(call.urls) = 2
    /\ call.urls[1] # ToLower(call.urls[1])
    /\ call.urls[2] = ToLower(call.urls[2])

(***************************************************************************)
(* C20 as stated.  Every run of the message that begins with http:// or    *)
(* https:// in any letter case and extends to the next white space or the  *)
(* end is extracted, whatever character precedes the prefix.               *)
(***************************************************************************)
C20_EveryRunExtracted ==
    (call.op = "findURL" /\ call.pos = "returned") =>
        \A p \in 1..Len(call.str) :
            PrefixAt(call.str, p) =>
                \E i \in 1..Len(call.urls) : call.urls[i] = Run(call.str, p)

(***************************************************************************)
(* C20.  The runs extracted are exactly those whose prefix is at the start *)
(* of the message or after a character that is no letter, digit or         *)
(* underscore, and that do not lie inside an earlier candidate; a prefix   *)
(* right after a letter is not extracted.                                  *)
(***************************************************************************)
C20_DelimitedRunsExtracted ==
    (call.op = "findURL" /\ call.pos = "returned") =>
        LET starts == Ascending(CandidateStarts(call.str)) IN
        /\ Len(call.urls) = Len(starts)
        /\ \A i \in 1..Len(starts) : call.urls[i] = Run(call.str, starts[i])
        /\ call.str = letterBefore => call.urls = << >>

\* one prefix after a letter and left out, one after punctuation and taken
C20_Witness ==
    /\ call.op = "findURL"
    /\ call.pos = "returned"
    /\ Len(call.urls) = 1
    /\ \E p \in 2..Len(call.str) :
          PrefixAt(call.str, p) /\ IsWordChar(call.str[p - 1])
    /\ \E p \in 2..Len(call.str) :
          /\ PrefixAt(call.str, p)
          /\ call.str[p - 1] = ","
          /\ call.urls[1] = Run(call.str, p)

(***************************************************************************)
(* C26.  displayTwitterTime gives the date iff the elapsed time is more    *)
(* than 7 days; at exactly 7 days and below it gives a relative duration   *)
(* followed by " ago".                                                     *)
(***************************************************************************)
C26_DateIffMoreThanSevenDays ==
    (call.op = "displayTwitterTime" /\ call.pos = "returned") =>
        LET more == \/ call.elapsed.s > 604800
                    \/ call.elapsed.s = 604800 /\ call.elapsed.ns > 0
        IN  call.out.kind = IF more THEN "date" ELSE "ago"

\* exactly 7 days, rendered as a duration
C26_Witness ==
    /\ call.op = "displayTwitterTime"
    /\ call.pos = "returned"
    /\ call.elapsed = Hours(7 * 24)
    /\ call.out.kind = "ago"
    /\ call.out.units # << >>

\* the place of a unit name in humanDurations
UnitIndex(name) == CHOOSE i \in 1..Len(humanDurations) : humanDurations[i].name = name

(***************************************************************************)
(* C27.  humanReadableDuration writes at most two units, a larger unit     *)
(* before a smaller one, also when smaller units of the duration are not   *)
(* zero; for a duration of more than 1 millisecond it writes at least one. *)
(***************************************************************************)
C27_AtMostTwoUnits ==
    (call.op = "humanReadableDuration" /\ call.pos = "returned") =>
        /\ Len(call.units) <= 2
        /\ \A i \in 1..(Len(call.units) - 1) :
              UnitIndex(call.units[i].name) < UnitIndex(call.units[i + 1].name)
        /\ (call.d.s > 0 \/ call.d.ns > 1000000) => Len(call.units) >= 1

\* days, hours, minutes, seconds and milliseconds all there, two written
C27_Witness ==
    /\ call.op = "humanReadableDuration"
    /\ call.pos = "returned"
    /\ Len(SelectSeq(Decomposition(call.d), LAMBDA u : u.count > 0)) = 5
    /\ Len(call.units) = 2

(***************************************************************************)
(* C29.  getBlueskyPost returns a non-nil error whenever it returns no     *)
(* decoded record (transport error, status other than 200, undecodable     *)
(* JSON), so that titleBluesky stops at its err != nil test and does not   *)
(* reach time.Parse with a zero record.                                    *)
(***************************************************************************)
C29_ErrorWheneverNoRecord ==
    (/\ call.op = "titleBluesky"
     /\ call.record # NoResp
     /\ ~call.record.panics
     /\ (call.record.err \/ call.record.status # 200 \/ call.record.badjson)) =>
        /\ getBlueskyPost(call.record).err
        /\ titleBlueskyBody(call.record).path = "neterr"

(***************************************************************************)
(* C30.  Within one message the pipelines run one after another in URL     *)
(* order: title() is entered for the next URL only when the call before    *)
(* has returned and given back its token, so the tokens that are out are   *)
(* one for each message that is inside a pipeline, and a notice is sent    *)
(* only by the pipeline of the URL the loop of titleAll stands at.         *)
(***************************************************************************)
C30_OneAfterAnother ==
    /\ [](~crashed =>
            semaphore = Cardinality({m \in Msgs :
                            pc[m] \in Waiting \cup {"deferred"} /\ Holding(m)}))
    /\ [][\A m \in Msgs :
            /\ (Enters(m) /\ idx[m] > 0) =>
                   /\ pipe[m].outcome # "none"
                   /\ pipe[m].admitted => pipe[m].released = 1
            /\ pipe'[m].notices > pipe[m].notices =>
                   /\ pc[m] \in Waiting
                   /\ idx'[m] = idx[m]]_vars

\* the second URL of a message is being resolved with the one token the
\* first gave back, after the first URL got its notice
C30_Witness ==
    \E m \in Msgs :
        /\ idx[m] = 1
        /\ pc[m] \in Waiting
        /\ Holding(m)
        /\ semaphore = 1

(***************************************************************************)
(* C23.  No retries: a generic pipeline issues at most one HTTP request, a *)
(* Bluesky pipeline at most two (resolveHandle, then getRecord), and after *)
(* a request that failed the pipeline issues no further request.           *)
(***************************************************************************)
C23_NoRetries ==
    /\ [](\A m \in Msgs :
            /\ pipe[m].reqs <= 2
            /\ pc[m] = "generic" => pipe[m].reqs = 1
            /\ pipe[m].outcome \in {"badurl", "non200", "readerr", "notitle"} =>
                   pipe[m].reqs <= 1)
    /\ [][\A m \in Msgs :
            \* the first request of a pipeline
            /\ Enters(m) => pipe'[m].reqs <= 1
            \* a further request: only the getRecord after a resolveHandle
            \* that did not fail
            /\ (~Enters(m) /\ pipe'[m].reqs # pipe[m].reqs) =>
                   /\ pc[m] = "resolve" /\ pc'[m] = "record"
                   /\ pipe[m].reqs = 1 /\ pipe'[m].reqs = 2
                   /\ ~pipe'[m].failed
            \* a failed request ends the resolver
            /\ (pc[m] \in Waiting /\ pipe'[m].failed) =>
                   /\ pipe'[m].reqs = pipe[m].reqs
                   /\ pc'[m] = "deferred"]_vars

\* a Bluesky pipeline whose second request failed has returned with two
\* requests made
C23_Witness ==
    \E m \in Msgs :
        /\ pc[m] = "deferred"
        /\ pipe[m].outcome = "badtime"
        /\ pipe[m].failed
        /\ pipe[m].reqs = 2

(***************************************************************************)
(* C22.  Every notice a pipeline sends goes to the target of the message   *)
(* that started it, and carries the reply tag with that message's msgid    *)
(* iff that msgid is not empty: never another target, never another        *)
(* message's msgid, however the pipelines interleave.                      *)
(***************************************************************************)
C22_NoticeToTriggeringMessage ==
    call.op = "reply" =>
        \A w \in call.sent :
            LET from == call.msg[w.by] IN
            /\ w.line.command = "NOTICE"
            /\ w.line.target = from.target
            /\ w.line.tags = IF from.msgid = "" THEN {}
                              ELSE {<<"+draft/reply", from.msgid>>}

\* both messages got a notice, on different targets, one tagged and one
\* not, and a pipeline is still running
C22_Witness ==
    /\ call.op = "reply"
    /\ \E v, w \in call.sent :
          /\ v.by # w.by
          /\ v.line.target # w.line.target
          /\ v.line.tags = {}
          /\ w.line.tags # {}
    /\ \E m \in Msgs : call.msg[m].pos = "waiting"

\* url holds, somewhere, the profile prefix, a handle of h characters
\* without "/", "/post/" and at least one character that is no "/"
MatchesPostPattern(url) ==
    \E p \in 1..Len(url), h \in 1..Len(url) :
        LET hs == p + Len(profileLit)
            ps == hs + h + Len(postLit)
        IN  /\ HasAt(url, p, profileLit)
            /\ hs + h - 1 <= Len(url)
            /\ \A i \in hs..(hs + h - 1) : url[i] # "/"
            /\ HasAt(url, hs + h, postLit)
            /\ ps <= Len(url)
            /\ url[ps] # "/"

(***************************************************************************)
(* C24.  title() calls exactly one resolver for every URL: titleBluesky    *)
(* iff the URL matches the post pattern with a handle and a post id that   *)
(* are not empty, titleGeneric otherwise; a profile URL without a post id  *)
(* goes to titleGeneric.                                                   *)
(***************************************************************************)
C24_ExactlyOneResolver ==
    (call.op = "title" /\ call.pos = "dispatched") =>
        /\ call.calls = IF MatchesPostPattern(call.url)
                        THEN {"titleBluesky"} ELSE {"titleGeneric"}
        /\ "titleBluesky" \in call.calls =>
               call.handle # << >> /\ call.postid # << >>
        /\ call.url \in {profileLit \o <<"a", ".", "b">>, profileLit \o <<"a", ".", "b">> \o postLit} =>
               call.calls = {"titleGeneric"}

\* a profile URL without a post id has gone to the generic resolver
C24_Witness ==
    /\ call.op = "title"
    /\ call.pos = "dispatched"
    /\ call.url = profileLit \o <<"a", ".", "b">>
    /\ call.calls = {"titleGeneric"}

(***************************************************************************)
(* Vocabulary of the generic resolver's properties.                        *)
(***************************************************************************)
\* the GET was answered with status 200 and the body was read
PageRead ==
    /\ call.op = "titleGeneric"
    /\ call.resp # NoResp
    /\ ~call.resp.err
    /\ call.resp.status = 200
    /\ call.resp.read # "other"

\* the title element of the page with the text between its tags
TitleElement(text) == <<"<", "t", "i", "t", "l", "e", ">">> \o text \o << "<", "/", "t", "i", "t", "l", "e", ">", "<", "/", "h", "e",
      "a", "d", ">" >>

(***************************************************************************)
(* C21.  For a URL on an unlisted host whose GET returns 200 and a body    *)
(* that begins <html><head><title>  Hello &amp; World  </title></head>,    *)
(* exactly one notice is sent and its text is "Hello & World".             *)
(***************************************************************************)
C21_HelloWorld ==
    (/\ PageRead
     /\ call.url = plainURL
     /\ HasAt(call.resp.body, 1, <<"<", "h", "t", "m", "l", ">", "<", "h", "e", "a", "d", ">">> \o TitleElement(helloText))) =>
        /\ Len(call.sent) = 1
        /\ call.sent[1].command = "NOTICE"
        /\ call.sent[1].target = call.target
        /\ call.sent[1].text =
              << "H", "e", "l", "l", "o", " ", "&", " ", "W", "o", "r", "l",
                 "d" >>

\* title() has returned after the one notice
C21_Witness ==
    /\ PageRead
    /\ call.pos = "done"
    /\ call.url = plainURL
    /\ HasAt(call.resp.body, 1, <<"<", "h", "t", "m", "l", ">", "<", "h", "e", "a", "d", ">">> \o TitleElement(helloText))
    /\ Len(call.sent) = 1

(***************************************************************************)
(* C25.  For a URL that does not parse, titleGeneric issues no HTTP        *)
(* request and sends no notice; it logs, returns, and title() gives the    *)
(* token back.                                                             *)
(***************************************************************************)
C25_MalformedURL ==
    (call.op = "titleGeneric" /\ call.url = badPortURL /\ call.pos # "entry") =>
        /\ call.reqs = 0
        /\ call.resp = NoResp
        /\ call.sent = << >>
        /\ call.logs >= 1
        /\ call.pos \in {"deferred", "done"}
        /\ call.pos = "deferred" => semaphore = 1 /\ ENABLED GenericDeferred
        /\ call.pos = "done" => semaphore = 0

\* title() has returned for the URL with the bad port
C25_Witness ==
    /\ call.op = "titleGeneric"
    /\ call.url = badPortURL
    /\ call.pos = "done"
    /\ call.logs >= 1
    /\ semaphore = 0

(***************************************************************************)
(* C28.  A 200 response whose title is empty after entity decoding,        *)
(* trimming and sanitization (as <title>   </title>), or whose body has no *)
(* title match, gives no notice.                                           *)
(***************************************************************************)
C28_EmptyTitleNoNotice ==
    PageRead =>
        LET body == call.resp.body
            titleMatch == FindSubmatch(body)
        IN  /\ (\/ ~titleMatch.ok
                \/ SanitizeText(TrimSpace(UnescapeString(titleMatch.title)),
                                titleCharLimit) = << >>) =>
                   call.sent = << >>
            /\ body \in {TitleElement(<<" ", " ", " ">>), TitleElement(<< >>),
                          TitleElement(<<"NUL">>), TitleElement(<<"&", "#", "3", "2", ";">>),
                          noTitleBody} =>
                   call.sent = << >>

\* the page with the blank title was read and title() has returned
C28_Witness ==
    /\ PageRead
    /\ call.pos = "done"
    /\ call.resp.body = TitleElement(<<" ", " ", " ">>)
    /\ call.sent = << >>

\* the callers that hold the semaphore
Holders == {c \in Callers : call.caller[c].pos = "holding"}

(***************************************************************************)
(* C31.  A godgets.Semaphore of capacity 1 is a trylock: however           *)
(* TryAcquire, Acquire and Release of the callers interleave, at most one  *)
(* caller holds it, and while it is held TryAcquire returns false at once  *)
(* and changes nothing.                                                    *)
(***************************************************************************)
C31_Trylock ==
    /\ []((call.op = "Semaphore" /\ capacity = 1) =>
            /\ Cardinality(Holders) <= 1
            /\ semaphore = Cardinality(Holders)
            /\ \A c \in Callers :
                  call.caller[c].pos = "idle" => ENABLED SemTryAcquire(c))
    /\ [][\A c \in Callers :
            (capacity = 1 /\ Holders # {} /\ SemTryAcquire(c)) =>
                /\ call'.caller[c] = [pos |-> "idle", last |-> "false"]
                /\ semaphore' = semaphore
                /\ Holders' = Holders]_vars

\* one caller holds the trylock, a second waits inside Acquire, and the
\* third was turned away by TryAcquire
C31_Witness ==
    /\ call.op = "Semaphore"
    /\ capacity = 1
    /\ \E a, b, c \in Callers :
          /\ call.caller[a].pos = "holding"
          /\ call.caller[b].pos = "acquiring"
          /\ call.caller[c] = [pos |-> "idle", last |-> "false"]

====
